---------------------------- MODULE Spec2Model ----------------------------
(***************************************************************************)
(* Model of the PETSHEALTH quote engine: the text helpers of               *)
(* pdf_builder.py (_safe_str, _safe_list, _wrap_words), the plan card      *)
(* compositor (_draw_plan_card, _draw_bullet_block), the page assembler    *)
(* build_quote_pdf and the total computation of app.py.                    *)
(*                                                                         *)
(* Lengths are integers in units of 1/127 pt, so that both the millimetre  *)
(* (reportlab: mm = 72/25.4 pt = 360 units) and the point (127 units) are  *)
(* exact.  Python strings are sequences of one-character strings; Python   *)
(* values that may be None, a str, an int or a list are tagged records.    *)
(* A string literal of the source that the code never measures is kept as  *)
(* one element; "*" stands for the bullet sign and "E" for the euro sign.  *)
(***************************************************************************)
EXTENDS Integers, Sequences, FiniteSets, TLC

VARIABLES
    wtext, wmax, wlines, wpc,          \* a call of _wrap_words
    litems, lmax, lout, lpc,           \* a call of _safe_list
    carg, cops, cpc,                   \* a call of _draw_plan_card
    quoteForm, entry, quoteData, logoFile,   \* the form, the caller, the record, the logo file
    bpc, canvas, drawLog, result,            \* a run of build_quote_pdf
    pdata, ppage, psel, pops, ppc,           \* a call of _draw_page_polaroids
    run, prev, orig, clock,                  \* a second call of build_quote_pdf
    mquote, mplans, mfiles, mvalidate, mresult, mpc,  \* a call of merge_quote_with_ipids
    threads, now, ticks, calls,        \* the threads that send, the clock, its moves, the calls made
    timestamps, accepted,              \* _rate_limiter.timestamps and the times ever recorded
    tpc, top, tnow, tret,              \* per thread: position, method, its now, what it returned
    uiForm, uiRecipient, session_state,      \* the widgets of a session and st.session_state
    lastEmail, completed, generations, sends, \* the email last sent, the last completed generation, counts
    stext, smax, sout, spc             \* a call of _safe_str

wrapVars == <<wtext, wmax, wlines, wpc>>
listVars == <<litems, lmax, lout, lpc>>
cardVars == <<carg, cops, cpc>>
repeatVars == <<run, prev, orig, clock>>
buildVars == <<quoteForm, entry, quoteData, logoFile, bpc, canvas, drawLog, result, repeatVars>>
polaroidVars == <<pdata, ppage, psel, pops, ppc>>
mergeVars == <<mquote, mplans, mfiles, mvalidate, mresult, mpc>>
limiterVars == <<threads, now, ticks, calls, timestamps, accepted, tpc, top, tnow, tret>>
sessionVars == <<uiForm, uiRecipient, session_state, lastEmail, completed, generations, sends>>
strVars == <<stext, smax, sout, spc>>
limiterRest == <<wrapVars, listVars, cardVars, buildVars, polaroidVars, mergeVars, sessionVars, strVars>>
sessionRest == <<wrapVars, listVars, cardVars, buildVars, polaroidVars, mergeVars, limiterVars, strVars>>
strRest == <<wrapVars, listVars, cardVars, buildVars, polaroidVars, mergeVars, limiterVars, sessionVars>>
extVars == <<mergeVars, limiterVars, sessionVars, strVars>>
vars == <<wrapVars, listVars, cardVars, buildVars, polaroidVars, extVars>>

(***************************************************************************)
(* Bounds of the model.                                                    *)
(***************************************************************************)
MaxLen == 5          \* longest text given to _wrap_words
MaxChars == 3        \* largest line budget given to _wrap_words
MaxList == 3         \* longest list given to _safe_list
MaxCap == 2          \* largest max_items given to _safe_list
MaxBullets == 6      \* most bullets a card section is given
MaxPets == 6         \* largest pet count of a bulk quote
MaxPool == 3         \* most images in the pool of decorative images
LongBioLen == 600    \* length of the long advisor bio (the form admits 3000)
MaxPlans == 3        \* most entries of selected_plans given to the merge
MaxEmails == 2       \* max_emails of the rate limiter (20 in config.py)
WindowSeconds == 3   \* window_seconds of the rate limiter (3600 by default)
MaxTicks == 3        \* most moves of the clock
MaxCalls == 4        \* most calls of the rate limiter's methods

(***************************************************************************)
(* Python values.                                                          *)
(***************************************************************************)
Min(a, b) == IF a <= b THEN a ELSE b
Max(a, b) == IF a >= b THEN a ELSE b

PyNone == [t |-> "none", s |-> <<>>, l |-> <<>>, n |-> 0]
PyStr(chars) == [t |-> "str", s |-> chars, l |-> <<>>, n |-> 0]
PyInt(k) == [t |-> "int", s |-> <<>>, l |-> <<>>, n |-> k]
PyList(elems) == [t |-> "list", s |-> <<>>, l |-> elems, n |-> 0]

\* the decimal digits of a natural number, most significant first
Digit(d) == <<"0", "1", "2", "3", "4", "5", "6", "7", "8", "9">>[d + 1]

RECURSIVE NatStr(_)
NatStr(k) == IF k < 10 THEN <<Digit(k)>> ELSE Append(NatStr(k \div 10), Digit(k % 10))

IntStr(k) == IF k < 0 THEN <<"-">> \o NatStr(-k) ELSE NatStr(k)

\* bool(v): None, "", 0 and [] are falsy
Truthy(v) ==
    CASE v.t = "none" -> FALSE
      [] v.t = "str"  -> v.s # <<>>
      [] v.t = "int"  -> v.n # 0
      [] v.t = "list" -> v.l # <<>>

\* str(v) for the scalars the model uses
PyStrOf(v) ==
    CASE v.t = "none" -> <<"N", "o", "n", "e">>
      [] v.t = "str"  -> v.s
      [] v.t = "int"  -> IntStr(v.n)
      [] v.t = "list" -> <<"[", "]">>

\* ord(ch) of the characters the model uses
Ord(ch) ==
    CASE ch = "\t" -> 9
      [] ch = "\n" -> 10
      [] ch = "\f" -> 12
      [] ch = " "  -> 32
      [] OTHER     -> 97

\* s[:k], Python slicing with a possibly negative stop
PyPrefix(s, k) ==
    LET n == IF k >= 0 THEN Min(k, Len(s)) ELSE Max(Len(s) + k, 0)
    IN  SubSeq(s, 1, n)

\* str.isspace() of one character, as str.split() and str.strip() see it
Whitespace == {" ", "\t", "\n", "\f", "\r"}
IsSpace(ch) == ch \in Whitespace

RECURSIVE lstrip(_)
lstrip(s) == IF s # <<>> /\ IsSpace(Head(s)) THEN lstrip(Tail(s)) ELSE s

RECURSIVE rstrip(_)
rstrip(s) ==
    IF s # <<>> /\ IsSpace(s[Len(s)]) THEN rstrip(SubSeq(s, 1, Len(s) - 1)) ELSE s

strip(s) == rstrip(lstrip(s))

\* The maximal runs of s[lo..hi] that hold no character of seps, in order:
\* those of its two halves, the run that crosses the middle put together.
RECURSIVE SplitRange(_, _, _, _)
SplitRange(s, lo, hi, seps) ==
    IF lo > hi THEN <<>>
    ELSE IF lo = hi THEN (IF s[lo] \in seps THEN <<>> ELSE << <<s[lo]>> >>)
    ELSE LET mid == (lo + hi) \div 2
             left == SplitRange(s, lo, mid, seps)
             right == SplitRange(s, mid + 1, hi, seps)
         IN  IF s[mid] \notin seps /\ s[mid + 1] \notin seps
             THEN SubSeq(left, 1, Len(left) - 1)
                  \o <<left[Len(left)] \o right[1]>>
                  \o Tail(right)
             ELSE left \o right

\* str.split(): the whitespace-separated tokens
split(s) == SplitRange(s, 1, Len(s), Whitespace)

\* str.splitlines(): the text between line breaks, empty lines kept, no
\* empty line after a final break
LineBreaks == {"\n", "\r", "\f"}

splitlines(s) ==
    LET breaks == {i \in 1..Len(s) : s[i] \in LineBreaks}
        count == Cardinality(breaks)
                 + (IF s = <<>> \/ s[Len(s)] \in LineBreaks THEN 0 ELSE 1)
        \* the position of the k-th break; 0 before the first, Len(s)+1 after the last
        Break(k) == IF k = 0 THEN 0
                    ELSE IF k > Cardinality(breaks) THEN Len(s) + 1
                    ELSE CHOOSE b \in breaks : Cardinality({c \in breaks : c < b}) = k - 1
    IN  [k \in 1..count |-> SubSeq(s, Break(k - 1) + 1, Break(k) - 1)]

\* needle in haystack, for str
Contains(haystack, needle) ==
    \E i \in 0..(Len(haystack) - Len(needle)) :
        SubSeq(haystack, i + 1, i + Len(needle)) = needle

\* " ".join(lines)
RECURSIVE JoinSpace(_)
JoinSpace(lines) ==
    IF lines = <<>> THEN <<>>
    ELSE IF Len(lines) = 1 THEN lines[1]
    ELSE lines[1] \o <<" ">> \o JoinSpace(Tail(lines))

(***************************************************************************)
(* pdf_builder.py: security limits and text helpers.                       *)
(***************************************************************************)
MAX_TEXT_LENGTH == 500
MAX_LIST_ITEMS == 20
WRAP_TEXT_LENGTH == 1000

\* the characters _safe_str keeps
KeepChar(ch) == Ord(ch) >= 32 \/ ch \in {"\n", "\t"}

\* the cut _safe_str makes when the text is too long
Ellipsize(text, max_length) ==
    IF Len(text) > max_length
    THEN PyPrefix(text, max_length - 3) \o <<".", ".", ".">>
    ELSE text

_safe_str(text, max_length) ==
    IF text.t = "none" THEN <<>>
    ELSE Ellipsize(SelectSeq(PyStrOf(text), KeepChar), max_length)

\* items[:max_items]
ListCap_uncapped(items, max_items) == items

ListCap(items, max_items) == PyPrefix(items, max_items)

\* the comprehension without its filter
RECURSIVE SafeItems_unfiltered(_)
SafeItems_unfiltered(elems) ==
    IF elems = <<>> THEN <<>>
    ELSE <<_safe_str(Head(elems), MAX_TEXT_LENGTH)>> \o SafeItems_unfiltered(Tail(elems))

\* [_safe_str(item) for item in ... if item]
RECURSIVE SafeItems(_)
SafeItems(elems) ==
    IF elems = <<>> THEN <<>>
    ELSE IF Truthy(Head(elems))
         THEN <<_safe_str(Head(elems), MAX_TEXT_LENGTH)>> \o SafeItems(Tail(elems))
         ELSE SafeItems(Tail(elems))

\* the empty entries dropped first and the cap applied to what is left
_safe_list_drop_first(items, max_items) ==
    IF ~Truthy(items) THEN <<>>
    ELSE IF items.t # "list" THEN <<>>
    ELSE ListCap(SafeItems(items.l), max_items)

_safe_list(items, max_items) ==
    IF ~Truthy(items) THEN <<>>
    ELSE IF items.t # "list" THEN <<>>
    ELSE SafeItems(ListCap(items.l, max_items))

\* current_line = word[:max_chars]
LongWord_whole(word, max_chars) == word

LongWord(word, max_chars) == PyPrefix(word, max_chars)

\* if current_line: lines.append(current_line)
CommitLine_drop(lines, current_line) == lines

CommitLine(lines, current_line) ==
    IF current_line # <<>> THEN Append(lines, current_line) ELSE lines

\* the for loop of _wrap_words and the append that follows it
RECURSIVE WrapLoop(_, _, _, _)
WrapLoop(words, max_chars, lines, current_line) ==
    IF words = <<>> THEN CommitLine(lines, current_line)
    ELSE LET word == Head(words)
             trial == strip(current_line \o <<" ">> \o word)
         IN  IF Len(trial) <= max_chars
             THEN WrapLoop(Tail(words), max_chars, lines, trial)
             ELSE WrapLoop(Tail(words), max_chars,
                           CommitLine(lines, current_line),
                           LongWord(word, max_chars))

\* return lines if lines else [""]
WrapResult_bare(lines) == lines

WrapResult(lines) == IF lines # <<>> THEN lines ELSE << <<>> >>

_wrap_words(text, max_chars) ==
    LET words == split(_safe_str(text, WRAP_TEXT_LENGTH))
    IN  IF words = <<>> THEN << <<>> >>
        ELSE WrapResult(WrapLoop(words, max_chars, <<>>, <<>>))

(***************************************************************************)
(* pdf_builder.py: the record (a Python dict) and its validation.          *)
(***************************************************************************)
MAX_POLAROID_IMAGES == 10
MAX_IMAGE_SIZE_MB == 10

\* a bytes object: what decoding it gives, and its length
PyBytes(kind, size) == [t |-> "bytes", s |-> <<kind>>, l |-> <<>>, n |-> size]

Has(data, key) == key \in DOMAIN data
Get(data, key, default) == IF Has(data, key) THEN data[key] ELSE default

required_fields ==
    <<"client_name", "client_email", "quote_date", "total_price", "selected_plans">>

text_fields ==
    {"client_name", "client_phone", "client_email", "location", "marketing_hook",
     "notes", "pet_name", "pet_species", "pet_breed", "pet_dob", "pet_microchip",
     "plan_1_name", "plan_1_provider", "plan_2_name", "plan_2_provider", "about_bio"}

list_fields ==
    {"plan1_key_facts", "plan1_covers", "plan1_exclusions", "plan1_waiting",
     "plan2_key_facts", "plan2_covers", "plan2_exclusions", "plan2_waiting",
     "cii_titles", "official_eurolife", "official_interlife"}

\* the loop over required_fields raises at the first field not in data
FirstMissing_last(data) ==
    LET missing == {i \in 1..Len(required_fields) : ~Has(data, required_fields[i])}
    IN  required_fields[CHOOSE i \in missing : \A j \in missing : i >= j]

FirstMissing(data) ==
    LET missing == {i \in 1..Len(required_fields) : ~Has(data, required_fields[i])}
    IN  required_fields[CHOOSE i \in missing : \A j \in missing : i <= j]

\* the ValueError _validate_data_dict raises; <<>> when it raises none
RaisedValueError(data) ==
    IF \E i \in 1..Len(required_fields) : ~Has(data, required_fields[i])
    THEN <<"Missing required field: ", FirstMissing(data)>>
    ELSE IF data["selected_plans"].t # "list"
         THEN <<"selected_plans must be a list">>
         ELSE <<>>

\* the comprehension without the slice of the list
CappedList_whole(elems) ==
    [i \in 1..Len(elems) |-> PyStr(PyPrefix(PyStrOf(elems[i]), MAX_TEXT_LENGTH))]

\* [str(item)[:MAX_TEXT_LENGTH] for item in data[field][:MAX_LIST_ITEMS]]
CappedList(elems) ==
    LET kept == PyPrefix(elems, MAX_LIST_ITEMS)
    IN  [i \in 1..Len(kept) |-> PyStr(PyPrefix(PyStrOf(kept[i]), MAX_TEXT_LENGTH))]

\* images[:MAX_POLAROID_IMAGES], kept when non-empty bytes of at most 10 MB
ValidImage(img) ==
    img.t = "bytes" /\ img.n > 0 /\ img.n <= MAX_IMAGE_SIZE_MB * 1024 * 1024

\* a pass that is not idempotent: text fields lose their last character
ValidatedField_shift(data, key) ==
    CASE key \in text_fields /\ data[key].t # "none" ->
            PyStr(SubSeq(PyStrOf(data[key]), 1, Len(PyStrOf(data[key])) - 1))
      [] OTHER -> data[key]

ValidatedField(data, key) ==
    CASE key \in text_fields /\ data[key].t # "none" ->
            PyStr(PyPrefix(PyStrOf(data[key]), MAX_TEXT_LENGTH))
      [] key \in list_fields ->
            IF data[key].t # "list" THEN PyList(<<>>) ELSE PyList(CappedList(data[key].l))
      [] key = "polaroid_images" ->
            IF data[key].t # "list" THEN PyList(<<>>)
            ELSE PyList(SelectSeq(PyPrefix(data[key].l, MAX_POLAROID_IMAGES), ValidImage))
      [] OTHER -> data[key]

\* a pass that rewrites the fields before it checks the record
_validate_data_dict_rewrite_first(data) ==
    [error |-> RaisedValueError(data),
     data |-> [key \in DOMAIN data |-> ValidatedField(data, key)]]

\* the record as _validate_data_dict leaves it, and the error it raises: the
\* checks come before the first assignment to the caller's dict
_validate_data_dict(data) ==
    LET error == RaisedValueError(data)
    IN  [error |-> error,
         data |-> IF error # <<>> THEN data
                  ELSE [key \in DOMAIN data |-> ValidatedField(data, key)]]

(***************************************************************************)
(* validators.py and app.py: the form, its sanitizers and the record the   *)
(* generate handler builds.  Prices are in cents.                          *)
(***************************************************************************)
MAX_TEXT_INPUT_LENGTH == 500
MAX_TEXT_AREA_LENGTH == 5000

PLAN_1_KEY == PyStr(<<"PET CARE PLUS (INTERLIFE)">>)
PLAN_2_KEY == PyStr(<<"EUROLIFE My Happy Pet (SAFE PET SYSTEM)">>)
PLAN_KEYS == <<PLAN_1_KEY, PLAN_2_KEY>>

\* a plan key that config.py does not know
OTHER_KEY == PyStr(<<"OTHER PLAN">>)

\* value in a Python list
InList(value, list) == \E i \in 1..Len(list) : list[i] = value

\* html.escape(text) of one character
HtmlEscapeChar(ch) ==
    CASE ch = "&"  -> <<"&", "a", "m", "p", ";">>
      [] ch = "<"  -> <<"&", "l", "t", ";">>
      [] ch = ">"  -> <<"&", "g", "t", ";">>
      [] ch = "\"" -> <<"&", "q", "u", "o", "t", ";">>
      [] ch = "'"  -> <<"&", "#", "x", "2", "7", ";">>
      [] OTHER     -> <<ch>>

RECURSIVE HtmlEscapeRange(_, _, _)
HtmlEscapeRange(s, lo, hi) ==
    IF lo > hi THEN <<>>
    ELSE IF lo = hi THEN HtmlEscapeChar(s[lo])
    ELSE HtmlEscapeRange(s, lo, (lo + hi) \div 2)
         \o HtmlEscapeRange(s, (lo + hi) \div 2 + 1, hi)

html_escape(s) == HtmlEscapeRange(s, 1, Len(s))

KeepAreaChar(ch) == Ord(ch) >= 32 \/ ch \in {"\t", "\n", "\r"}

\* both sanitizers raise ValidationError when the stripped text is too long
TooLong(text, max_length) == Len(strip(text)) > max_length

sanitize_text_input(text, max_length) ==
    IF text = <<>> THEN <<>> ELSE html_escape(SelectSeq(strip(text), KeepChar))

sanitize_text_area(text, max_length) ==
    IF text = <<>> THEN <<>> ELSE html_escape(SelectSeq(strip(text), KeepAreaChar))

\* lines(txt): [x.strip() for x in (txt or "").splitlines() if x.strip()]
NonEmpty(x) == x # <<>>
app_lines(txt) ==
    LET raw == splitlines(txt)
    IN  SelectSeq([i \in 1..Len(raw) |-> strip(raw[i])], NonEmpty)

\* f"{cents / 100:.2f}"
Format2f(cents) ==
    IntStr(cents \div 100) \o <<".", Digit((cents % 100) \div 10), Digit(cents % 10)>>

IsBulk(quote_mode) == Contains(quote_mode, <<"B", "u", "l", "k">>)

\* mult = int(pet_count) if "Bulk" in quote_mode else 1
Mult(form) == IF IsBulk(form.quote_mode) THEN form.pet_count ELSE 1

\* the total of the selected plans
Total_all(form) == (form.plan_1_price + form.plan_2_price) * Mult(form)

Total(form) ==
    (IF InList(PLAN_1_KEY, form.selected_plans) THEN form.plan_1_price * Mult(form) ELSE 0)
    + (IF InList(PLAN_2_KEY, form.selected_plans) THEN form.plan_2_price * Mult(form) ELSE 0)

PyStrs(strs) == PyList([i \in 1..Len(strs) |-> PyStr(strs[i])])

\* x.lstrip("•").strip() of every line
RECURSIVE LstripBullet(_)
LstripBullet(x) == IF x # <<>> /\ Head(x) = "*" THEN LstripBullet(Tail(x)) ELSE x

Highlights(txt) ==
    LET ls == app_lines(txt) IN [i \in 1..Len(ls) |-> strip(LstripBullet(ls[i]))]

\* the texts generate sanitizes, each with its limit
SanitizedInputs(form) ==
    { <<form.marketing_hook, 150>>, <<form.client_name, MAX_TEXT_INPUT_LENGTH>>,
      <<form.client_phone, 20>>, <<form.client_email, 254>>,
      <<form.location, MAX_TEXT_INPUT_LENGTH>>, <<form.bulk_summary, MAX_TEXT_AREA_LENGTH>>,
      <<form.pet_name, MAX_TEXT_INPUT_LENGTH>>, <<form.pet_breed, MAX_TEXT_INPUT_LENGTH>>,
      <<form.pet_dob, 10>>, <<form.pet_microchip, 50>>,
      <<form.plan_1_name, MAX_TEXT_INPUT_LENGTH>>, <<form.plan_1_provider, MAX_TEXT_INPUT_LENGTH>>,
      <<form.plan_2_name, MAX_TEXT_INPUT_LENGTH>>, <<form.plan_2_provider, MAX_TEXT_INPUT_LENGTH>>,
      <<form.notes, MAX_TEXT_AREA_LENGTH>>, <<form.plan1_limit, MAX_TEXT_INPUT_LENGTH>>,
      <<form.plan1_area, MAX_TEXT_INPUT_LENGTH>>, <<form.plan2_limit, MAX_TEXT_INPUT_LENGTH>>,
      <<form.plan2_area, MAX_TEXT_INPUT_LENGTH>>, <<form.about_bio, MAX_TEXT_AREA_LENGTH>> }

\* sanitized_data, with the images added to it
sanitized_data(form) ==
    [ marketing_hook     |-> PyStr(sanitize_text_input(form.marketing_hook, 150)),
      client_name        |-> PyStr(sanitize_text_input(form.client_name, MAX_TEXT_INPUT_LENGTH)),
      client_phone       |-> PyStr(sanitize_text_input(form.client_phone, 20)),
      client_email       |-> PyStr(sanitize_text_input(form.client_email, 254)),
      location           |-> PyStr(sanitize_text_input(form.location, MAX_TEXT_INPUT_LENGTH)),
      quote_mode         |-> PyStr(form.quote_mode),
      pet_count          |-> PyInt(form.pet_count),
      bulk_summary       |-> PyStr(sanitize_text_area(form.bulk_summary, MAX_TEXT_AREA_LENGTH)),
      pet_name           |-> PyStr(sanitize_text_input(form.pet_name, MAX_TEXT_INPUT_LENGTH)),
      pet_species        |-> PyStr(form.pet_species),
      pet_breed          |-> PyStr(sanitize_text_input(form.pet_breed, MAX_TEXT_INPUT_LENGTH)),
      pet_dob            |-> PyStr(sanitize_text_input(form.pet_dob, 10)),
      pet_microchip      |-> PyStr(sanitize_text_input(form.pet_microchip, 50)),
      plan_1_name        |-> PyStr(sanitize_text_input(form.plan_1_name, MAX_TEXT_INPUT_LENGTH)),
      plan_1_provider    |-> PyStr(sanitize_text_input(form.plan_1_provider, MAX_TEXT_INPUT_LENGTH)),
      plan_1_price       |-> PyStr(Format2f(form.plan_1_price)),
      plan_2_name        |-> PyStr(sanitize_text_input(form.plan_2_name, MAX_TEXT_INPUT_LENGTH)),
      plan_2_provider    |-> PyStr(sanitize_text_input(form.plan_2_provider, MAX_TEXT_INPUT_LENGTH)),
      plan_2_price       |-> PyStr(Format2f(form.plan_2_price)),
      selected_plans     |-> PyList(form.selected_plans),
      price_multiplier   |-> PyInt(Mult(form)),
      plan_1_price_total |-> PyStr(Format2f(form.plan_1_price * Mult(form))),
      plan_2_price_total |-> PyStr(Format2f(form.plan_2_price * Mult(form))),
      total_price        |-> PyStr(Format2f(Total(form)) \o <<" ", "E">>),
      quote_date         |-> PyStr(form.quote_date),
      notes              |-> PyStr(sanitize_text_area(form.notes, MAX_TEXT_AREA_LENGTH)),
      plan1_limit        |-> PyStr(sanitize_text_input(form.plan1_limit, MAX_TEXT_INPUT_LENGTH)),
      plan1_area         |-> PyStr(sanitize_text_input(form.plan1_area, MAX_TEXT_INPUT_LENGTH)),
      plan1_key_facts    |-> PyStrs(app_lines(form.plan1_key_facts_txt)),
      plan1_covers       |-> PyStrs(app_lines(form.plan1_covers_txt)),
      plan1_exclusions   |-> PyStrs(app_lines(form.plan1_exclusions_txt)),
      plan1_waiting      |-> PyStrs(app_lines(form.plan1_waiting_txt)),
      plan2_limit        |-> PyStr(sanitize_text_input(form.plan2_limit, MAX_TEXT_INPUT_LENGTH)),
      plan2_area         |-> PyStr(sanitize_text_input(form.plan2_area, MAX_TEXT_INPUT_LENGTH)),
      plan2_key_facts    |-> PyStrs(app_lines(form.plan2_key_facts_txt)),
      plan2_covers       |-> PyStrs(app_lines(form.plan2_covers_txt)),
      plan2_exclusions   |-> PyStrs(app_lines(form.plan2_exclusions_txt)),
      plan2_waiting      |-> PyStrs(app_lines(form.plan2_waiting_txt)),
      about_bio          |-> PyStr(sanitize_text_area(form.about_bio, MAX_TEXT_AREA_LENGTH)),
      cii_titles         |-> PyStrs(app_lines(form.cii_titles)),
      official_eurolife  |-> PyStrs(Highlights(form.official_eurolife)),
      official_interlife |-> PyStrs(Highlights(form.official_interlife)),
      polaroid_images    |-> PyList(PyPrefix(form.images, MAX_POLAROID_IMAGES)) ]

(***************************************************************************)
(* pdf_builder.py: the canvas and the plan card.                           *)
(***************************************************************************)
mm == 360                      \* reportlab.lib.units.mm = 72/25.4 pt
pt == 127                      \* one point, the canvas unit
W == 210 * mm                  \* A4
H == 297 * mm
MARGIN == 14 * mm
FOOTER_Y == 12 * mm

\* One canvas operation.  id names the statement that issues it; page (the
\* page open when it is issued), part (the page section of build_quote_pdf it
\* belongs to) and src (the record fields read for it) are filled in by the
\* page assembler.
Op(kind, id, x, y, w, h, text) ==
    [op |-> kind, id |-> id, x |-> x, y |-> y, w |-> w, h |-> h, text |-> text,
     page |-> 0, part |-> "", src |-> {}]

DrawString(id, x, y, text) == Op("drawString", id, x, y, 0, 0, text)
DrawRightString(id, x, y, text) == Op("drawRightString", id, x, y, 0, 0, text)
RoundRect(id, x, y, w, h) == Op("roundRect", id, x, y, w, h, <<>>)
Rect(id, x, y, w, h) == Op("rect", id, x, y, w, h, <<>>)

\* the lines of one bullet: drawString(x, yy, prefix + line); yy -= leading
RECURSIVE BulletLineOps(_, _, _, _, _)
BulletLineOps(x, yy, lines, i, leading) ==
    IF i > Len(lines) THEN <<>>
    ELSE <<DrawString("bullet", x, yy, (IF i = 1 THEN <<"*", " ">> ELSE <<" ", " ">>) \o lines[i])>>
         \o BulletLineOps(x, yy - leading, lines, i + 1, leading)

\* the for loop of _draw_bullet_block over the items
RECURSIVE BulletItemOps(_, _, _, _, _)
BulletItemOps(x, yy, items, max_chars, leading) ==
    IF items = <<>> THEN [yy |-> yy, ops |-> <<>>]
    ELSE IF Head(items) = <<>>
         THEN BulletItemOps(x, yy, Tail(items), max_chars, leading)
         ELSE LET lines == _wrap_words(PyStr(Head(items)), max_chars)
                  rest == BulletItemOps(x, yy - Len(lines) * leading, Tail(items),
                                        max_chars, leading)
              IN  [yy |-> rest.yy,
                   ops |-> BulletLineOps(x, yy, lines, 1, leading) \o rest.ops]

BULLET_BLOCK_ITEMS == 10

\* items is a Python list; returns the final yy and the operations issued
_draw_bullet_block(x, y, items, max_chars, leading) ==
    BulletItemOps(x, y, _safe_list(items, BULLET_BLOCK_ITEMS), max_chars, leading)

\* card_w_chars = max(20, int(usable_width_mm / avg_char_width)), 2.2 per character
CardWChars(w) == Max(20, ((w - 12 * mm) * 5) \div (11 * pt))

\* for sub_line in subtitle_lines[:2]
SubtitleOps(x, y_top, lines) ==
    [i \in 1..Min(2, Len(lines)) |->
        DrawString("card_subtitle", x + 6 * mm,
                   y_top - (23 * mm) \div 2 - (i - 1) * 8 * pt, lines[i])]

SECTION_ITEMS == 6

\* the for loop of _draw_plan_card over the blocks
RECURSIVE SectionOps(_, _, _, _)
SectionOps(x, yy, blocks, card_w_chars) ==
    IF blocks = <<>> THEN <<>>
    ELSE LET section_title == Head(blocks)[1]
             bullet_items == _safe_list(Head(blocks)[2], SECTION_ITEMS)
             heading == DrawString("section_title", x + 6 * mm, yy,
                                   _safe_str(section_title, 50))
             block == _draw_bullet_block(x + 8 * mm, yy - 5 * pt, PyStrs(bullet_items),
                                         card_w_chars - 5, 12 * pt)
         IN  <<heading>> \o block.ops
             \o SectionOps(x, block.yy - 5 * pt, Tail(blocks), card_w_chars)

\* title and subtitle are Python str, blocks a list of <<title, list>> pairs
_draw_plan_card(x, y_top, w, h, title, subtitle, blocks) ==
    LET header_h == 16 * mm
        card_w_chars == CardWChars(w)
        subtitle_lines == _wrap_words(PyStr(_safe_str(subtitle, 150)), card_w_chars)
    IN  <<RoundRect("card", x, y_top - h, w, h),
          RoundRect("card_header", x, y_top - header_h, w, header_h),
          RoundRect("card_accent", x, y_top - 4 * pt, w, 4 * pt),
          DrawString("card_title", x + 6 * mm, y_top - (41 * mm) \div 5,
                     _safe_str(title, 80))>>
        \o SubtitleOps(x, y_top, subtitle_lines)
        \o SectionOps(x, y_top - 20 * mm, blocks, card_w_chars)

(***************************************************************************)
(* pdf_builder.py: page chrome, decorative images and page 1 (Summary).    *)
(***************************************************************************)
\* an operation with the record fields read for it
From(op, fields) == [op EXCEPT !.src = fields]

\* _safe_str(data.get(key, ""), max_length=...)
Field(data, key, max_length) == _safe_str(Get(data, key, PyStr(<<>>)), max_length)

\* _draw_header: the bar, the logo when it loads, the page title
_draw_header(logo, right_title) ==
    <<Rect("header_bar", 0, H - 20 * mm, W, 20 * mm)>>
    \o (IF logo = "ok"
        THEN <<Op("drawImage", "logo", 14 * mm, H - 17 * mm, 40 * mm, 14 * mm, <<>>)>>
        ELSE <<>>)
    \o <<DrawRightString("page_title", W - 14 * mm, H - (25 * mm) \div 2,
                         _safe_str(PyStr(right_title), 100))>>

_draw_footer ==
    <<DrawString("footer", 14 * mm, FOOTER_Y,
                 <<"PETSHEALTH | www.petshealth.gr | info@petshealth.gr | +30 211 700 533">>),
      DrawRightString("footer_tagline", W - 14 * mm, FOOTER_Y,
                      <<"Because we care for your pets as much as you do">>)>>

\* _draw_polaroid: nothing for empty bytes or bytes that do not decode;
\* a failing drawImage is skipped, the frame and the label are still drawn
\* a failing drawImage that leaves the function at once
_draw_polaroid_abort(img, x, y, w, h, angle) ==
    IF ~(img.t = "bytes" /\ img.n > 0) \/ img.s = <<"undecodable">> THEN <<>>
    ELSE <<Op("saveState", "polaroid", 0, 0, 0, 0, <<>>),
           Op("rotate", "polaroid", x + w \div 2, y + h \div 2, 0, 0, IntStr(angle)),
           RoundRect("polaroid_shadow", x + (6 * mm) \div 5, y - (6 * mm) \div 5, w, h),
           RoundRect("polaroid_frame", x, y, w, h)>>
         \o (IF img.s = <<"undrawable">> THEN <<>>
             ELSE <<Op("drawImage", "polaroid_image", x + 3 * mm, y + 10 * mm,
                       w - 6 * mm, h - 13 * mm, img.s),
                    DrawString("polaroid_label", x + 3 * mm, y + (12 * mm) \div 5, <<"PETSHEALTH">>),
                    Op("restoreState", "polaroid", 0, 0, 0, 0, <<>>)>>)

_draw_polaroid(img, x, y, w, h, angle) ==
    IF ~(img.t = "bytes" /\ img.n > 0) \/ img.s = <<"undecodable">> THEN <<>>
    ELSE <<Op("saveState", "polaroid", 0, 0, 0, 0, <<>>),
           Op("rotate", "polaroid", x + w \div 2, y + h \div 2, 0, 0, IntStr(angle)),
           RoundRect("polaroid_shadow", x + (6 * mm) \div 5, y - (6 * mm) \div 5, w, h),
           RoundRect("polaroid_frame", x, y, w, h)>>
         \o (IF img.s = <<"undrawable">> THEN <<>>
             ELSE <<Op("drawImage", "polaroid_image", x + 3 * mm, y + 10 * mm,
                       w - 6 * mm, h - 13 * mm, img.s)>>)
         \o <<DrawString("polaroid_label", x + 3 * mm, y + (12 * mm) \div 5, <<"PETSHEALTH">>),
              Op("restoreState", "polaroid", 0, 0, 0, 0, <<>>)>>

\* the images of a page: pool entries (page_index - 1) % N and page_index % N
_polaroids_for_page_fixed(data, page_index) ==
    LET pool == Get(data, "polaroid_images", PyList(<<>>))
    IN  IF Truthy(pool) THEN PyPrefix(pool.l, 2) ELSE <<>>

_polaroids_for_page(data, page_index) ==
    LET pool == Get(data, "polaroid_images", PyList(<<>>))
        imgs == IF Truthy(pool) THEN pool.l ELSE <<>>
    IN  IF imgs = <<>> THEN <<>>
        ELSE <<imgs[((page_index - 1) % Len(imgs)) + 1]>>
             \o (IF Len(imgs) > 1 THEN <<imgs[(page_index % Len(imgs)) + 1]>> ELSE <<>>)

_draw_page_polaroids(data, page_index) ==
    LET pimgs == _polaroids_for_page(data, page_index)
        y == 18 * mm
        w == 40 * mm
        h == 48 * mm
        ops == IF pimgs = <<>> THEN <<>>
               ELSE _draw_polaroid(pimgs[1], 14 * mm, y, w, h, -6)
                    \o (IF Len(pimgs) > 1
                        THEN _draw_polaroid(pimgs[2], W - 14 * mm - w, y, w, h, 6)
                        ELSE <<>>)
    IN  [i \in 1..Len(ops) |-> From(ops[i], {"polaroid_images"})]

\* the mode and the plans of the record
ModeOf(data) == PyStrOf(Get(data, "quote_mode", PyStr(<<>>)))
PetCountOf(data) == Get(data, "pet_count", PyInt(1)).n
SelectedOf(data) == Get(data, "selected_plans", PyList(<<>>)).l
Plan1Selected(data) == InList(PLAN_1_KEY, SelectedOf(data))
Plan2Selected(data) == InList(PLAN_2_KEY, SelectedOf(data))

BoxH(data) == IF IsBulk(ModeOf(data)) THEN 48 * mm ELSE 44 * mm
BOX_Y == H - 60 * mm
BOX_X == 14 * mm
BOX_W == W - 28 * mm
PRICE_CARD_H == 52 * mm

\* y2 where the first recommended option is listed, y3 the top of the pricing card
OptionsY(data) == BOX_Y - BoxH(data) - 10 * mm - 8 * mm
PricingY(data) ==
    OptionsY(data) - (IF Plan1Selected(data) THEN 6 * mm ELSE 0)
                   - (IF Plan2Selected(data) THEN 6 * mm ELSE 0) - 10 * mm

\* page 1, the header and the client box
SummaryHeadOps(data, logo) ==
    <<Rect("header_bar", 0, H - 28 * mm, W, 28 * mm)>>
    \o (IF logo = "ok"
        THEN <<Op("drawImage", "logo", 14 * mm, H - 24 * mm, 45 * mm, 18 * mm, <<>>)>>
        ELSE <<DrawString("brand", 14 * mm, H - 16 * mm,
                          <<"PETSHEALTH - Pet Insurance Quotation">>)>>)
    \o <<From(DrawRightString("quote_date", W - 14 * mm, H - 22 * mm,
                              <<"Quote Date: ">> \o Field(data, "quote_date", 20)),
              {"quote_date"}),
         From(DrawString("hook", 14 * mm, H - 36 * mm, Field(data, "marketing_hook", 110)),
              {"marketing_hook"}),
         From(RoundRect("client_box", BOX_X, BOX_Y - BoxH(data), BOX_W, BoxH(data)),
              {"quote_mode"}),
         RoundRect("client_accent", BOX_X, BOX_Y - 4 * pt, BOX_W, 4 * pt),
         DrawString("client_heading", BOX_X + 8 * mm, BOX_Y - 10 * mm,
                    <<"Client & Pet Summary">>),
         From(DrawString("client", BOX_X + 8 * mm, BOX_Y - 18 * mm,
                         <<"Client: ">> \o Field(data, "client_name", 50)), {"client_name"}),
         From(DrawString("phone", BOX_X + 8 * mm, BOX_Y - 26 * mm,
                         <<"Phone:  ">> \o Field(data, "client_phone", 20)), {"client_phone"}),
         From(DrawString("email", BOX_X + 8 * mm, BOX_Y - 34 * mm,
                         <<"Email:   ">> \o Field(data, "client_email", 50)), {"client_email"})>>
    \o (IF Field(data, "location", 50) # <<>>
        THEN <<From(DrawString("location", BOX_X + 8 * mm, BOX_Y - 42 * mm,
                               <<"Location: ">> \o Field(data, "location", 50)),
                    {"location"})>>
        ELSE <<>>)

\* for line in bulk_summary.splitlines()[:4]: drawn when not empty, 11 pt apart
RECURSIVE BulkLineOps(_, _, _)
BulkLineOps(summary_lines, i, yyb) ==
    IF i > Min(4, Len(summary_lines)) THEN <<>>
    ELSE LET line == _safe_str(PyStr(summary_lines[i]), 120)
         IN  IF line # <<>>
             THEN <<DrawString("bulk_summary", BOX_X + 8 * mm, yyb, line)>>
                  \o BulkLineOps(summary_lines, i + 1, yyb - 11 * pt)
             ELSE BulkLineOps(summary_lines, i + 1, yyb)

\* page 1, the right column of the client box
PetOps(data) ==
    LET right == BOX_X + BOX_W - 8 * mm
        bulk == BulkLineOps(splitlines(Field(data, "bulk_summary", 300)), 1, BOX_Y - 42 * mm)
    IN  IF IsBulk(ModeOf(data))
        THEN <<From(DrawRightString("pets", right, BOX_Y - 18 * mm,
                        <<"Pets: ">> \o IntStr(PetCountOf(data)) \o <<" (Bulk quote)">>),
                    {"pet_count", "quote_mode"})>>
             \o [i \in 1..Len(bulk) |-> From(bulk[i], {"bulk_summary", "quote_mode"})]
        ELSE <<From(DrawRightString("pet", right, BOX_Y - 18 * mm,
                        <<"Pet: ">> \o Field(data, "pet_name", 30) \o <<" ", "(">>
                        \o Field(data, "pet_species", 20) \o <<")">>),
                    {"pet_name", "pet_species", "quote_mode"}),
               From(DrawRightString("breed", right, BOX_Y - 26 * mm,
                        <<"Breed: ">> \o Field(data, "pet_breed", 30)),
                    {"pet_breed", "quote_mode"}),
               From(DrawRightString("dob", right, BOX_Y - 34 * mm,
                        <<"DOB: ">> \o Field(data, "pet_dob", 15) \o <<" | Microchip: ">>
                        \o Field(data, "pet_microchip", 20)),
                    {"pet_dob", "pet_microchip", "quote_mode"})>>

\* page 1, "Recommended Options": one line per plan whose key is selected
OptionOps(data) ==
    LET y2 == OptionsY(data)
    IN  <<DrawString("options_heading", 14 * mm, y2 + 8 * mm, <<"Recommended Options">>)>>
        \o (IF Plan1Selected(data)
            THEN <<From(DrawString("option_1", 14 * mm, y2,
                        <<"*", " ">> \o Field(data, "plan_1_name", 50) \o <<" - ">>
                        \o Field(data, "plan_1_provider", 30)),
                    {"plan_1_name", "plan_1_provider", "selected_plans"})>>
            ELSE <<>>)
        \o (IF Plan2Selected(data)
            THEN <<From(DrawString("option_2", 14 * mm,
                        y2 - (IF Plan1Selected(data) THEN 6 * mm ELSE 0),
                        <<"*", " ">> \o Field(data, "plan_2_name", 50) \o <<" - ">>
                        \o Field(data, "plan_2_provider", 30)),
                    {"plan_2_name", "plan_2_provider", "selected_plans"})>>
            ELSE <<>>)

\* page 1, the pricing card: a row per selected plan and the total bar
PricingOps(data) ==
    LET y3 == PricingY(data)
        card_x == 14 * mm
        card_w == W - 28 * mm
        right == card_x + card_w - 8 * mm
        yy == y3 - 24 * mm
        yy2 == yy - (IF Plan1Selected(data) THEN 11 * mm ELSE 0)
    IN  <<From(RoundRect("pricing_card", card_x, y3 - PRICE_CARD_H, card_w, PRICE_CARD_H),
               {"selected_plans", "quote_mode"}),
          DrawString("pricing_heading", card_x + 8 * mm, y3 - 10 * mm, <<"Pricing Summary">>),
          DrawRightString("pricing_unit", right, y3 - 10 * mm, <<"Annual Premium (E)">>)>>
        \o (IF Plan1Selected(data)
            THEN <<From(DrawString("price_1_name", card_x + 8 * mm, yy,
                                   Field(data, "plan_1_name", 50)),
                        {"plan_1_name", "selected_plans"}),
                   From(DrawRightString("price_1", right, yy,
                                        Field(data, "plan_1_price_total", 20)),
                        {"plan_1_price_total", "selected_plans"})>>
            ELSE <<>>)
        \o (IF Plan2Selected(data)
            THEN <<From(DrawString("price_2_name", card_x + 8 * mm, yy2,
                                   Field(data, "plan_2_name", 50)),
                        {"plan_2_name", "selected_plans"}),
                   From(DrawRightString("price_2", right, yy2,
                                        Field(data, "plan_2_price_total", 20)),
                        {"plan_2_price_total", "selected_plans"})>>
            ELSE <<>>)
        \o <<RoundRect("total_bar", card_x, y3 - PRICE_CARD_H, card_w, 13 * mm),
             DrawString("total_label", card_x + 8 * mm, y3 - PRICE_CARD_H + (9 * mm) \div 2,
                        <<"Total Annual Premium">>),
             From(DrawRightString("total_price", right, y3 - PRICE_CARD_H + (9 * mm) \div 2,
                                  Field(data, "total_price", 20)),
                  {"total_price"})>>

\* page 1, the notes: every wrapped line is drawn, 11 pt apart
NotesOps_narrow(data) ==
    LET y4 == PricingY(data) - PRICE_CARD_H - 8 * mm
        wrapped == _wrap_words(PyStr(Field(data, "notes", 500)), 12)
    IN  <<DrawString("notes_heading", 14 * mm, y4, <<"Notes / Disclaimer">>)>>
        \o [i \in 1..Len(wrapped) |->
               From(DrawString("notes", 14 * mm, y4 - 6 * mm - (i - 1) * 11 * pt, wrapped[i]),
                    {"notes"})]

NotesOps(data) ==
    LET y4 == PricingY(data) - PRICE_CARD_H - 8 * mm
        wrapped == _wrap_words(PyStr(Field(data, "notes", 500)), 112)
    IN  <<DrawString("notes_heading", 14 * mm, y4, <<"Notes / Disclaimer">>)>>
        \o [i \in 1..Len(wrapped) |->
               From(DrawString("notes", 14 * mm, y4 - 6 * mm - (i - 1) * 11 * pt, wrapped[i]),
                    {"notes"})]

\* the operations of a page section, each marked with the section
InPart(ops, part) == [i \in 1..Len(ops) |-> [ops[i] EXCEPT !.part = part]]

SummaryOps(data, logo) ==
    InPart(SummaryHeadOps(data, logo) \o PetOps(data) \o OptionOps(data)
           \o PricingOps(data) \o NotesOps(data)
           \o _draw_page_polaroids(data, 1) \o _draw_footer, "Summary")

\* page 2: the rectangle of the single card and of the two side-by-side cards
CARD_TOP == H - 30 * mm - 8 * mm
CARD_GAP == 8 * mm
SINGLE_H == 165 * mm
DUAL_H == 170 * mm
DualW_full == W - 28 * mm

DualW == (W - 28 * mm - CARD_GAP) \div 2

CardRect(arrangement) ==
    CASE arrangement = "single" ->
            [x |-> MARGIN, y_top |-> CARD_TOP, w |-> W - 28 * mm, h |-> SINGLE_H]
      [] arrangement = "left" ->
            [x |-> MARGIN, y_top |-> CARD_TOP, w |-> DualW, h |-> DUAL_H]
      [] arrangement = "right" ->
            [x |-> MARGIN + DualW + CARD_GAP, y_top |-> CARD_TOP, w |-> DualW, h |-> DUAL_H]

\* the section headings build_quote_pdf gives every card
SectionTitles ==
    << PyStr(<<"K", "e", "y", " ", "F", "a", "c", "t", "s">>),
       PyStr(<<"C", "o", "v", "e", "r", "s", " ", "(", "S", "u", "m", "m", "a", "r", "y", ")">>),
       PyStr(<<"N", "o", "t", " ", "C", "o", "v", "e", "r", "e", "d", " ", "(", "I", "n", "d", "i", "c", "a", "t", "i", "v", "e", ")">>),
       PyStr(<<"W", "a", "i", "t", "i", "n", "g", " ", "P", "e", "r", "i", "o", "d", "s">>) >>

(***************************************************************************)
(* pdf_builder.py: page 2 (Coverage) and page 3 (About).                   *)
(***************************************************************************)
Plan1ListFields == <<"plan1_key_facts", "plan1_covers", "plan1_exclusions", "plan1_waiting">>
Plan2ListFields == <<"plan2_key_facts", "plan2_covers", "plan2_exclusions", "plan2_waiting">>

\* blocks = [("Key Facts", data.get("plan1_key_facts", [])), ...]
Blocks(data, list_keys) ==
    [i \in 1..4 |-> <<SectionTitles[i], Get(data, list_keys[i], PyList(<<>>))>>]

PlanTitle(data, name_key, provider_key) ==
    Field(data, name_key, 50) \o <<" ", "(">> \o Field(data, provider_key, 30) \o <<")">>

\* the card of plan 1 in a rectangle; its fields are cut to cap characters
Plan1Card(data, r, cap) ==
    LET subtitle == <<"E">> \o Field(data, "plan_1_price", 10) \o <<"/", "y", "e", "a", "r", " ", "|", " ", "L", "i", "m", "i", "t", ":", " ">>
                    \o Field(data, "plan1_limit", cap) \o <<" ", "|", " ", "A", "r", "e", "a", ":", " ">>
                    \o Field(data, "plan1_area", cap)
        ops == _draw_plan_card(r.x, r.y_top, r.w, r.h,
                               PyStr(PlanTitle(data, "plan_1_name", "plan_1_provider")),
                               PyStr(subtitle), Blocks(data, Plan1ListFields))
    IN  [i \in 1..Len(ops) |->
            From(ops[i], {"plan_1_name", "plan_1_provider", "plan_1_price", "plan1_limit",
                          "plan1_area", "plan1_key_facts", "plan1_covers",
                          "plan1_exclusions", "plan1_waiting", "selected_plans"})]

\* the card of plan 2: alone, and beside the card of plan 1
Plan2Card(data, r, alone) ==
    LET subtitle == IF alone
                    THEN <<"L", "i", "m", "i", "t", ":", " ">> \o Field(data, "plan2_limit", 50) \o <<" ", "|", " ", "A", "r", "e", "a", ":", " ">>
                         \o Field(data, "plan2_area", 50) \o <<" ", "|", " ", "N", "e", "t", "w", "o", "r", "k", " ", "o", "n", "l", "y">>
                    ELSE <<"U", "n", "l", "i", "m", "i", "t", "e", "d", " ", "(", "i", "n", "-", "n", "e", "t", "w", "o", "r", "k", ")", " ", "|", " ">> \o PyPrefix(Field(data, "plan2_area", 40), 25)
        ops == _draw_plan_card(r.x, r.y_top, r.w, r.h,
                               PyStr(PlanTitle(data, "plan_2_name", "plan_2_provider")),
                               PyStr(subtitle), Blocks(data, Plan2ListFields))
    IN  [i \in 1..Len(ops) |->
            From(ops[i], {"plan_2_name", "plan_2_provider", "plan2_area",
                          "plan2_key_facts", "plan2_covers", "plan2_exclusions",
                          "plan2_waiting", "selected_plans"}
                         \cup (IF alone THEN {"plan2_limit"} ELSE {}))]

\* if selected_plans[0] == "PET CARE PLUS (INTERLIFE)": plan 1, else: plan 2
SingleCardPlan_second(selected_plans) == 2

SingleCardPlan(selected_plans) == IF selected_plans[1] = PLAN_1_KEY THEN 1 ELSE 2

\* one card at full width when exactly one plan is listed, else a card per
\* selected plan key in its column
CardOps(data) ==
    IF Len(SelectedOf(data)) = 1
    THEN IF SingleCardPlan(SelectedOf(data)) = 1
         THEN Plan1Card(data, CardRect("single"), 50)
         ELSE Plan2Card(data, CardRect("single"), TRUE)
    ELSE (IF Plan1Selected(data) THEN Plan1Card(data, CardRect("left"), 40) ELSE <<>>)
         \o (IF Plan2Selected(data) THEN Plan2Card(data, CardRect("right"), FALSE) ELSE <<>>)

\* the footer drawn before the images of the page
CoverageOps_footer_first(data, logo) ==
    InPart(_draw_header(logo, <<"Plan Coverage Summary">>)
           \o <<DrawString("coverage_heading", 14 * mm, H - 30 * mm,
                           <<"Coverage Details (Summary)">>)>>
           \o CardOps(data)
           \o _draw_footer \o _draw_page_polaroids(data, 2), "Coverage")

CoverageOps(data, logo) ==
    InPart(_draw_header(logo, <<"Plan Coverage Summary">>)
           \o <<DrawString("coverage_heading", 14 * mm, H - 30 * mm,
                           <<"Coverage Details (Summary)">>)>>
           \o CardOps(data)
           \o _draw_page_polaroids(data, 2) \o _draw_footer, "Coverage")

\* Paragraph and KeepInFrame: a text laid out in a frame
Paragraph(id, x, y, w, h, text) == Op("paragraph", id, x, y, w, h, text)

\* bio.replace("\n", "<br/>")
RECURSIVE BreakRange(_, _, _)
BreakRange(s, lo, hi) ==
    IF lo > hi THEN <<>>
    ELSE IF lo = hi THEN (IF s[lo] = "\n" THEN <<"<", "b", "r", "/", ">">> ELSE <<s[lo]>>)
    ELSE BreakRange(s, lo, (lo + hi) \div 2) \o BreakRange(s, (lo + hi) \div 2 + 1, hi)

\* _create_platypus_bullets: a Paragraph per non-empty item of the capped list
_create_platypus_bullets(id, x, y, w, h, items, max_items) ==
    LET kept == SelectSeq(_safe_list(items, max_items), NonEmpty)
    IN  [i \in 1..Len(kept) |-> Paragraph(id, x, y, w, h, kept[i])]

\* data.get(key, []), replaced by the one-entry default when falsy
ListOrDefault(data, key, default) ==
    IF Truthy(Get(data, key, PyList(<<>>))) THEN data[key] ELSE PyStrs(<<default>>)

ABOUT_TOP == H - 30 * mm - 16 * mm
BOX1_H == 65 * mm
BOX2_H == 30 * mm
BOX3_H == 70 * mm
Box2Top == ABOUT_TOP - BOX1_H - 8 * mm
Box3Top == Box2Top - BOX2_H - 10 * mm - 6 * mm
ColW == (W - 2 * MARGIN - 8 * mm) \div 2

AboutBioOps(data) ==
    LET given == Field(data, "about_bio", 1000)
        bio == IF given # <<>> THEN given
               ELSE <<"Professional pet insurance advisor. Contact us for more information.">>
    IN  <<RoundRect("bio_box", MARGIN, ABOUT_TOP - BOX1_H, W - 2 * MARGIN, BOX1_H),
          RoundRect("bio_accent", MARGIN, ABOUT_TOP - 4 * pt, W - 2 * MARGIN, 4 * pt),
          DrawString("bio_heading", MARGIN + 6 * mm, ABOUT_TOP - 12 * mm, <<"About the Advisor">>),
          From(Paragraph("bio", MARGIN + 6 * mm, ABOUT_TOP - BOX1_H + 8 * mm,
                         W - 2 * MARGIN - 12 * mm, BOX1_H - 22 * mm,
                         BreakRange(bio, 1, Len(bio))),
               {"about_bio"})>>

CredentialOps(data) ==
    LET bullets == _create_platypus_bullets("cii", MARGIN + 6 * mm, Box2Top - BOX2_H + 6 * mm,
                       W - 2 * MARGIN - 12 * mm, BOX2_H - 18 * mm,
                       ListOrDefault(data, "cii_titles",
                                     <<"CII Certified Pet Insurance Professional">>), 6)
    IN  <<RoundRect("cii_box", MARGIN, Box2Top - BOX2_H, W - 2 * MARGIN, BOX2_H),
          DrawString("cii_heading", MARGIN + 6 * mm, Box2Top - 10 * mm, <<"Credentials (CII)">>)>>
        \o [i \in 1..Len(bullets) |-> From(bullets[i], {"cii_titles"})]

\* one column of official highlights
HighlightOps(data, id, x, heading, key, default) ==
    LET bullets == _create_platypus_bullets(id, x + 6 * mm, Box3Top - BOX3_H + 6 * mm,
                       ColW - 12 * mm, BOX3_H - 20 * mm,
                       ListOrDefault(data, key, default), 8)
    IN  <<RoundRect(id \o "_box", x, Box3Top - BOX3_H, ColW, BOX3_H),
          RoundRect(id \o "_band", x, Box3Top - 12 * mm, ColW, 12 * mm),
          DrawString(id \o "_heading", x + 6 * mm, Box3Top - 8 * mm, <<heading>>)>>
        \o [i \in 1..Len(bullets) |-> From(bullets[i], {key})]

AboutOps(data, logo) ==
    InPart(_draw_header(logo, <<"About & Official Highlights">>)
           \o <<RoundRect("trust_banner", MARGIN, H - 30 * mm - 12 * mm, W - 2 * MARGIN, 12 * mm),
                DrawString("trust", MARGIN + 6 * mm, H - 30 * mm - (83 * mm) \div 10,
                           <<"Trust: SAFE PET (2016)  *  Pet Insurance advisor  *  CII certified (PL4, W01)">>)>>
           \o AboutBioOps(data)
           \o CredentialOps(data)
           \o <<DrawString("highlights_heading", MARGIN, Box3Top + 6 * mm,
                           <<"Official Highlights (Editable)">>)>>
           \o HighlightOps(data, "eurolife", MARGIN, "EUROLIFE - My Happy Pet",
                           "official_eurolife", <<"Professional coverage with network benefits">>)
           \o HighlightOps(data, "interlife", MARGIN + ColW + 8 * mm, "INTERLIFE - PET CARE",
                           "official_interlife", <<"Comprehensive coverage with flexibility">>)
           \o _draw_page_polaroids(data, 3) \o _draw_footer, "About")

\* the canvas: the page being drawn and, for every page emitted, the
\* sections whose operations are on it
\* canvas.Canvas(buf, pagesize=A4) is made without the invariant flag, so the
\* document information holds the time of its creation
NewCanvas == [created |-> TRUE, page |-> 1, closed |-> <<>>, saved |-> FALSE, stamp |-> 0]
NoCanvas == [created |-> FALSE, page |-> 0, closed |-> <<>>, saved |-> FALSE, stamp |-> 0]

PartsOn(log, page) == {log[i].part : i \in {j \in 1..Len(log) : log[j].page = page}}

\* c.showPage(): the page is emitted and the next one begun
showPage_same(cv, log) == cv

showPage(cv, log) ==
    [cv EXCEPT !.page = @ + 1, !.closed = Append(@, PartsOn(log, cv.page))]

\* c.save(): emits the page being drawn when something is on it
save(cv, log) ==
    [cv EXCEPT !.saved = TRUE,
               !.closed = IF PartsOn(log, cv.page) # {} THEN Append(@, PartsOn(log, cv.page))
                          ELSE @]

\* operations issued on the page the canvas has open
OnPage(ops, cv) == [i \in 1..Len(ops) |-> [ops[i] EXCEPT !.page = cv.page]]

(***************************************************************************)
(* Inputs of the text helpers.                                             *)
(***************************************************************************)
Alphabet == {"a", "b", " ", "\n", "\f"}

RECURSIVE TextsUpTo(_)
TextsUpTo(n) ==
    IF n = 0 THEN {<<>>}
    ELSE LET shorter == TextsUpTo(n - 1)
         IN  shorter \cup {Append(t, ch) : t \in shorter, ch \in Alphabet}

WrapInputs == {PyNone} \cup {PyStr(t) : t \in TextsUpTo(MaxLen)}

\* list items: None, "", a word, a control character, an int
ListItems == {PyNone, PyStr(<<>>), PyStr(<<"a">>), PyStr(<<"\f">>), PyInt(7)}

RECURSIVE ListsUpTo(_)
ListsUpTo(n) ==
    IF n = 0 THEN {<<>>}
    ELSE LET shorter == ListsUpTo(n - 1)
         IN  shorter \cup {Append(t, it) : t \in shorter, it \in ListItems}

ListInputs == {PyNone, PyStr(<<>>), PyStr(<<"a">>), PyInt(7)}
              \cup {PyList(l) : l \in ListsUpTo(MaxList)}

\* k words of n letters, separated by single spaces
Sentence(k, n) == [i \in 1..(k * (n + 1) - 1) |-> IF i % (n + 1) = 0 THEN " " ELSE "a"]

\* bullet texts validation admits: a few words, a sentence, 499 characters
BulletTexts == {Sentence(2, 3), Sentence(12, 7), Sentence(50, 9)}

\* a list field after validation: n items of one text
BulletList(n, text) == PyList([i \in 1..n |-> PyStr(text)])

CardBlocks(counts, text) ==
    [i \in 1..4 |-> <<SectionTitles[i], BulletList(counts[i], text)>>]

CardArgs ==
    { [arrangement |-> a, title |-> PyStr(Sentence(2, 4)),
       subtitle |-> PyStr(Sentence(5, 6)), blocks |-> CardBlocks(counts, text)] :
        a \in {"single", "left", "right"},
        counts \in [1..4 -> {0, 1, MaxBullets}],
        text \in BulletTexts }

(***************************************************************************)
(* Inputs of build_quote_pdf: forms of the app and records given directly. *)
(* The texts of plan 1 hold a "Q", those of plan 2 a "Z", no other text    *)
(* holds either.  Prices are in cents; the forms hold a well-formed email, *)
(* phone number and date.                                                  *)
(***************************************************************************)
DETAILED == <<"D", "e", "t", "a", "i", "l", "e", "d", " ", "(", "s", "i", "n", "g", "l", "e", " ", "p", "e", "t", ")">>
BULK == <<"B", "u", "l", "k", " ", "(", "n", "u", "m", "b", "e", "r", " ", "o", "f", " ", "p", "e", "t", "s", ")">>

DefaultForm ==
    [ marketing_hook |-> <<"C", "a", "r", "e", " ", "<", "n", "o", "w", ">", " ", "&", " ", "s", "a", "v", "e">>, client_name |-> <<" ", "A", "n", "n", " ", "O", "'", "H", "a", "r", "a", " ">>,
      client_phone |-> <<"+", "3", "0", " ", "2", "1", "0", " ", "1">>, client_email |-> <<"a", "@", "b", ".", "g", "r">>,
      location |-> <<"A", "t", "h", "e", "n", "s">>, quote_mode |-> DETAILED, pet_count |-> 1,
      bulk_summary |-> <<"2", " ", "d", "o", "g", "s", "\n", "\n", "1", " ", "c", "a", "t">>,
      pet_name |-> <<"R", "e", "x">>, pet_species |-> <<"D", "o", "g">>, pet_breed |-> <<"M", "i", "x">>,
      pet_dob |-> <<"0", "1", "/", "0", "2", "/", "2", "0", "2", "0">>, pet_microchip |-> <<"1", "2", "3">>,
      plan_1_name |-> <<"Q", " ", "c", "a", "r", "e">>, plan_1_provider |-> <<"Q", " ", "l", "i", "f", "e">>, plan_1_price |-> 18900,
      plan_2_name |-> <<"Z", " ", "p", "e", "t">>, plan_2_provider |-> <<"Z", " ", "e", "u", "r", "o">>, plan_2_price |-> 8500,
      selected_plans |-> PLAN_KEYS, quote_date |-> <<"0", "4", "/", "1", "1", "/", "2", "0", "2", "6">>,
      notes |-> <<"T", "h", "i", "s", " ", "i", "s", " ", "a", " ", "s", "u", "m", "m", "a", "r", "y", " ", "o", "f", "f", "e", "r", ".", "\n", "T", "e", "r", "m", "s", " ", "a", "p", "p", "l", "y">>,
      plan1_limit |-> <<"Q", " ", "2", "0", "0", "0">>, plan1_area |-> <<"Q", " ", "G", "r", "e", "e", "c", "e">>,
      plan1_key_facts_txt |-> <<"Q", " ", "f", "a", "c", "t", " ", "o", "n", "e", "\n", " ", " ", "\n", "Q", " ", "f", "a", "c", "t", " ", "t", "w", "o">>, plan1_covers_txt |-> <<"Q", " ", "c", "o", "v", "e", "r", "s">>,
      plan1_exclusions_txt |-> <<"Q", " ", "e", "x", "c", "l", "u", "d", "e", "d">>, plan1_waiting_txt |-> <<"Q", " ", "w", "a", "i", "t", "i", "n", "g">>,
      plan2_limit |-> <<"Z", " ", "n", "o", "n", "e">>, plan2_area |-> <<"Z", " ", "n", "e", "t", "w", "o", "r", "k">>,
      plan2_key_facts_txt |-> <<"Z", " ", "f", "a", "c", "t">>, plan2_covers_txt |-> <<"Z", " ", "c", "o", "v", "e", "r", "s", "\n", "Z", " ", "m", "o", "r", "e">>,
      plan2_exclusions_txt |-> <<"Z", " ", "e", "x", "c", "l", "u", "d", "e", "d">>, plan2_waiting_txt |-> <<"Z", " ", "w", "a", "i", "t", "i", "n", "g">>,
      about_bio |-> <<"A", "d", "v", "i", "s", "o", "r", "\n", "s", "i", "n", "c", "e", " ", "2", "0", "1", "6">>, cii_titles |-> <<"P", "L", "4", "\n", "W", "0", "1">>,
      official_eurolife |-> <<"*", " ", "n", "e", "t", "w", "o", "r", "k", "\n", "*", "*", " ", " ", "f", "e", "e", "s">>, official_interlife |-> <<>>,
      images |-> <<>> ]

\* a long advisor bio: letters, a line break, and a last word
LongBio == [i \in 1..LongBioLen |-> IF i = LongBioLen THEN "z" ELSE IF i = 7 THEN "\n" ELSE "a"]

\* notes of a one-letter word and a 112-letter word in turn, nine words
ShortLongNotes ==
    [i \in 1..461 |-> IF i % 115 = 1 THEN "a" ELSE IF i % 115 \in {0, 2} THEN " " ELSE "b"]

\* the plans picked in the multiselect, in the order they were picked
Selections ==
    {<<>>, <<PLAN_1_KEY>>, <<PLAN_2_KEY>>, <<PLAN_1_KEY, PLAN_2_KEY>>, <<PLAN_2_KEY, PLAN_1_KEY>>}

\* pet_count is 1 unless the mode is Bulk
Modes ==
    {[quote_mode |-> DETAILED, pet_count |-> 1]}
    \cup {[quote_mode |-> BULK, pet_count |-> n] : n \in 1..MaxPets}

Prices == {<<18900, 8500>>, <<12345, 5>>}

ImageSets ==
    {<<>>, <<PyBytes("ok", 1000), PyBytes("undecodable", 10), PyBytes("undrawable", 20)>>}

Forms ==
    { [DefaultForm EXCEPT !.selected_plans = sel, !.quote_mode = m.quote_mode,
                          !.pet_count = m.pet_count, !.plan_1_price = p[1],
                          !.plan_2_price = p[2], !.images = imgs] :
        sel \in Selections, m \in Modes, p \in Prices, imgs \in ImageSets }
    \cup { [DefaultForm EXCEPT !.marketing_hook = [i \in 1..151 |-> "a"]],
           [DefaultForm EXCEPT !.client_name = <<" ", " ">>],
           [DefaultForm EXCEPT !.official_eurolife = <<"*", "\n", "*", " ">>],
           [DefaultForm EXCEPT !.about_bio = LongBio],
           [DefaultForm EXCEPT !.notes = Sentence(50, 9), !.quote_mode = BULK],
           [DefaultForm EXCEPT !.notes = Sentence(8, 56), !.quote_mode = BULK],
           [DefaultForm EXCEPT !.notes = ShortLongNotes, !.quote_mode = BULK],
           [DefaultForm EXCEPT !.about_bio = <<"a", "<", "b", "r", "/", ">", "&", "\n", "b">>],
           [DefaultForm EXCEPT !.cii_titles = <<"<", "b", ">", "P", "L", "4", "\n", "W", "&", "1">>] }

\* a record as the app builds it
BaseRecord == sanitized_data(DefaultForm)

Without(rec, keys) == [key \in DOMAIN rec \ keys |-> rec[key]]

\* over the limits: a text of MAX_TEXT_LENGTH + 1 characters, a number and
\* None for a text, a list of MAX_LIST_ITEMS + 1 items with an overlong one
\* and None among them, a text for a list, and a pool of more than
\* MAX_POLAROID_IMAGES entries with empty bytes, a text and an image of over
\* 10 MB among the first ten
LongText == [i \in 1..(MAX_TEXT_LENGTH + 1) |-> IF i = MAX_TEXT_LENGTH + 1 THEN "z" ELSE "a"]

LongList ==
    [i \in 1..(MAX_LIST_ITEMS + 1) |->
        CASE i = 2 -> PyStr(LongText)
          [] i = 3 -> PyNone
          [] OTHER -> PyStr(<<"a">>)]

BigPool ==
    [i \in 1..(MAX_POLAROID_IMAGES + 2) |->
        CASE i = 2 -> PyBytes("ok", 0)
          [] i = 3 -> PyStr(<<"a">>)
          [] i = 4 -> PyBytes("ok", MAX_IMAGE_SIZE_MB * 1024 * 1024 + 1)
          [] i = 5 -> PyBytes("ok", MAX_IMAGE_SIZE_MB * 1024 * 1024)
          [] OTHER -> PyBytes("ok", i)]

OversizedRecords ==
    { [BaseRecord EXCEPT !.client_name = PyStr(LongText), !.location = PyInt(7),
                         !.notes = PyNone, !.cii_titles = PyList(LongList),
                         !.plan1_covers = PyStr(<<"a">>),
                         !.polaroid_images = PyList(BigPool)],
      [BaseRecord EXCEPT !.about_bio = PyStr(LongText), !.polaroid_images = PyStr(<<"a">>)] }

\* records given to build_quote_pdf directly: required fields left out, and
\* selected_plans that is not a list or a list of other lengths
DirectRecords ==
    { Without(BaseRecord, missing) :
        missing \in SUBSET {required_fields[i] : i \in 1..Len(required_fields)} }
    \cup { [BaseRecord EXCEPT !.selected_plans = v] :
             v \in {PyNone, PLAN_1_KEY, PyList(<<>>), PyList(<<PLAN_2_KEY>>),
                    PyList(<<PLAN_1_KEY, PLAN_1_KEY, PLAN_2_KEY>>)} }
    \cup { Without([BaseRecord EXCEPT !.selected_plans = PyNone], {"client_email"}) }
    \cup { Without(BaseRecord, {"cii_titles", "official_interlife"}),
           [BaseRecord EXCEPT !.cii_titles = PyList(<<>>),
                              !.official_eurolife = PyStr(<<"a">>)],
           [BaseRecord EXCEPT !.cii_titles = PyStrs(<< <<>>, <<>> >>)] }
    \cup OversizedRecords
    \cup { Without(r, {"total_price"}) : r \in OversizedRecords }
    \cup { [r EXCEPT !.selected_plans = PLAN_1_KEY] : r \in OversizedRecords }
    \cup { [BaseRecord EXCEPT !.selected_plans = PyList(v)] :
             v \in {<<OTHER_KEY>>, <<PLAN_1_KEY, PLAN_1_KEY>>, <<OTHER_KEY, PLAN_2_KEY>>} }

NoResult == [kind |-> "none", message |-> <<>>, pages |-> 0]

\* what a call leaves behind: what it returned or raised, the operations
\* it issued, the pages it emitted and the creation time in the document
NoOutput == [result |-> NoResult, ops |-> <<>>, pages |-> <<>>, stamp |-> 0]

(***************************************************************************)
(* Idle parts: what a specification leaves alone.                          *)
(***************************************************************************)
WrapIdle == wtext = PyNone /\ wmax = 0 /\ wlines = <<>> /\ wpc = "idle"
ListIdle == litems = PyNone /\ lmax = 0 /\ lout = <<>> /\ lpc = "idle"
CardIdle == carg = PyNone /\ cops = <<>> /\ cpc = "idle"
PolaroidIdle ==
    pdata = <<>> /\ ppage = 0 /\ psel = <<>> /\ pops = <<>> /\ ppc = "idle"

MergeIdle ==
    /\ mquote = <<>> /\ mplans = <<>> /\ mfiles = <<>> /\ mvalidate = FALSE
    /\ mresult = <<>> /\ mpc = "idle"
LimiterIdle ==
    /\ threads = {} /\ now = 0 /\ ticks = 0 /\ calls = 0
    /\ timestamps = <<>> /\ accepted = <<>>
    /\ tpc = <<>> /\ top = <<>> /\ tnow = <<>> /\ tret = <<>>
SessionIdle ==
    /\ uiForm = <<>> /\ uiRecipient = <<>> /\ session_state = <<>>
    /\ lastEmail = <<>> /\ completed = <<>> /\ generations = 0 /\ sends = 0
StrIdle == stext = PyNone /\ smax = 0 /\ sout = <<>> /\ spc = "idle"
ExtIdle == MergeIdle /\ LimiterIdle /\ SessionIdle /\ StrIdle

BuildIdle ==
    /\ quoteForm = <<>> /\ entry = "none" /\ quoteData = <<>> /\ logoFile = "missing"
    /\ bpc = "idle" /\ canvas = NoCanvas /\ drawLog = <<>> /\ result = NoResult
    /\ run = 0 /\ prev = NoOutput /\ orig = <<>> /\ clock = 0

(***************************************************************************)
(* SpecWrap: calls of _wrap_words(text, max_chars).                        *)
(***************************************************************************)
InitWrap ==
    /\ wtext \in WrapInputs
    /\ wmax \in 0..MaxChars
    /\ wlines = <<>>
    /\ wpc = "call"
    /\ ListIdle /\ CardIdle /\ BuildIdle /\ PolaroidIdle /\ ExtIdle

WrapCall ==
    /\ wpc = "call"
    /\ wlines' = _wrap_words(wtext, wmax)
    /\ wpc' = "done"
    /\ UNCHANGED <<wtext, wmax, listVars, cardVars, buildVars, polaroidVars, extVars>>

NextWrap == WrapCall

SpecWrap == InitWrap /\ [][NextWrap]_vars

(***************************************************************************)
(* SpecList: calls of _safe_list(items, max_items).                        *)
(***************************************************************************)
InitList ==
    /\ litems \in ListInputs
    /\ lmax \in 1..MaxCap
    /\ lout = <<>>
    /\ lpc = "call"
    /\ WrapIdle /\ CardIdle /\ BuildIdle /\ PolaroidIdle /\ ExtIdle

SafeListCall ==
    /\ lpc = "call"
    /\ lout' = _safe_list(litems, lmax)
    /\ lpc' = "done"
    /\ UNCHANGED <<litems, lmax, wrapVars, cardVars, buildVars, polaroidVars, extVars>>

NextList == SafeListCall

SpecList == InitList /\ [][NextList]_vars

(***************************************************************************)
(* SpecCard: calls of _draw_plan_card as page 2 makes them.                *)
(***************************************************************************)
InitCard ==
    /\ carg \in CardArgs
    /\ cops = <<>>
    /\ cpc = "call"
    /\ WrapIdle /\ ListIdle /\ BuildIdle /\ PolaroidIdle /\ ExtIdle

DrawPlanCard ==
    /\ cpc = "call"
    /\ LET r == CardRect(carg.arrangement)
       IN  cops' = _draw_plan_card(r.x, r.y_top, r.w, r.h,
                                   carg.title, carg.subtitle, carg.blocks)
    /\ cpc' = "done"
    /\ UNCHANGED <<carg, wrapVars, listVars, buildVars, polaroidVars, extVars>>

NextCard == DrawPlanCard

SpecCard == InitCard /\ [][NextCard]_vars

(***************************************************************************)
(* SpecBuild: the generate handler of app.py and build_quote_pdf, a step   *)
(* per page.                                                               *)
(***************************************************************************)
\* validation_errors of the form: the button is disabled while there are any
validation_errors(f) ==
    (IF strip(f.client_name) = <<>> THEN {"Client name is required"} ELSE {})
    \cup (IF strip(f.client_email) = <<>> THEN {"Client email is required"} ELSE {})
    \cup (IF strip(f.client_phone) = <<>> THEN {"Client phone is required"} ELSE {})
    \cup (IF f.selected_plans = <<>> THEN {"At least one plan must be selected"} ELSE {})

InitBuild ==
    /\ logoFile \in {"ok", "missing"}
    /\ \/ entry = "app" /\ quoteForm \in Forms /\ quoteData = <<>> /\ bpc = "form"
       \/ entry = "direct" /\ quoteForm = <<>> /\ quoteData \in DirectRecords /\ bpc = "called"
    /\ orig = quoteData
    /\ run = 1
    /\ prev = NoOutput
    /\ clock = 0
    /\ canvas = NoCanvas
    /\ drawLog = <<>>
    /\ result = NoResult
    /\ WrapIdle /\ ListIdle /\ CardIdle /\ PolaroidIdle /\ ExtIdle

\* the generate button: the record is built from the form and handed to
\* build_quote_pdf, unless a sanitizer raises ValidationError
Generate ==
    /\ bpc = "form"
    /\ validation_errors(quoteForm) = {}
    /\ IF \E in \in SanitizedInputs(quoteForm) : TooLong(in[1], in[2])
       THEN /\ result' = [NoResult EXCEPT !.kind = "ValidationError"]
            /\ bpc' = "failed"
            /\ quoteData' = quoteData
       ELSE /\ quoteData' = sanitized_data(quoteForm)
            /\ bpc' = "called"
            /\ result' = result
    /\ UNCHANGED <<quoteForm, entry, logoFile, canvas, drawLog, wrapVars, listVars, cardVars, polaroidVars, repeatVars, extVars>>

\* data = _validate_data_dict(data); a ValueError leaves build_quote_pdf
Validate ==
    /\ bpc = "called"
    /\ LET v == _validate_data_dict(quoteData)
       IN  IF v.error # <<>>
           THEN /\ result' = [NoResult EXCEPT !.kind = "ValueError", !.message = v.error]
                /\ bpc' = "raised"
                /\ quoteData' = v.data
           ELSE /\ quoteData' = v.data
                /\ bpc' = "validated"
                /\ result' = result
    /\ UNCHANGED <<quoteForm, entry, logoFile, canvas, drawLog, wrapVars, listVars, cardVars, polaroidVars, repeatVars, extVars>>

\* c = canvas.Canvas(buf, pagesize=A4)
CreateCanvas ==
    /\ bpc = "validated"
    /\ canvas' = [NewCanvas EXCEPT !.stamp = clock]
    /\ bpc' = "summary"
    /\ UNCHANGED <<quoteForm, entry, quoteData, logoFile, drawLog, result, wrapVars, listVars, cardVars, polaroidVars, repeatVars, extVars>>

DrawSummary ==
    /\ bpc = "summary"
    /\ drawLog' = drawLog \o OnPage(SummaryOps(quoteData, logoFile), canvas)
    /\ bpc' = "coverage"
    /\ UNCHANGED <<quoteForm, entry, quoteData, logoFile, canvas, result, wrapVars, listVars, cardVars, polaroidVars, repeatVars, extVars>>

DrawCoverage ==
    /\ bpc = "coverage"
    /\ LET cv == showPage(canvas, drawLog)
       IN  /\ canvas' = cv
           /\ drawLog' = drawLog \o OnPage(CoverageOps(quoteData, logoFile), cv)
    /\ bpc' = "about"
    /\ UNCHANGED <<quoteForm, entry, quoteData, logoFile, result, wrapVars, listVars, cardVars, polaroidVars, repeatVars, extVars>>

DrawAbout ==
    /\ bpc = "about"
    /\ LET cv == showPage(canvas, drawLog)
       IN  /\ canvas' = cv
           /\ drawLog' = drawLog \o OnPage(AboutOps(quoteData, logoFile), cv)
    /\ bpc' = "save"
    /\ UNCHANGED <<quoteForm, entry, quoteData, logoFile, result, wrapVars, listVars, cardVars, polaroidVars, repeatVars, extVars>>

\* c.save(); return buf.getvalue()
Save ==
    /\ bpc = "save"
    /\ LET cv == save(canvas, drawLog)
       IN  /\ canvas' = cv
           /\ result' = [NoResult EXCEPT !.kind = "bytes", !.pages = Len(cv.closed)]
    /\ bpc' = "returned"
    /\ UNCHANGED <<quoteForm, entry, quoteData, logoFile, drawLog, wrapVars, listVars, cardVars, polaroidVars, repeatVars, extVars>>

\* build_quote_pdf is called once more, on the record object the first call
\* was given (validated in place by then) or on a record identical to the
\* one it was given, at once or after the clock has moved on
CallAgain ==
    /\ run = 1
    /\ bpc \in {"returned", "raised"}
    /\ prev' = [result |-> result, ops |-> drawLog, pages |-> canvas.closed,
                stamp |-> canvas.stamp]
    /\ run' = 2
    /\ \E later \in {0, 1} : clock' = clock + later
    /\ \/ quoteData' = quoteData
       \/ quoteData' = IF entry = "app" THEN sanitized_data(quoteForm) ELSE orig
    /\ canvas' = NoCanvas
    /\ drawLog' = <<>>
    /\ result' = NoResult
    /\ bpc' = "called"
    /\ UNCHANGED <<quoteForm, entry, logoFile, orig, wrapVars, listVars, cardVars, polaroidVars, extVars>>

NextBuild ==
    \/ Generate
    \/ Validate
    \/ CreateCanvas
    \/ DrawSummary
    \/ DrawCoverage
    \/ DrawAbout
    \/ Save
    \/ CallAgain

SpecBuild == InitBuild /\ [][NextBuild]_vars

(***************************************************************************)
(* SpecPolaroid: calls of _draw_page_polaroids(c, W, H, data, page_index)  *)
(* on a validated record.                                                  *)
(***************************************************************************)
\* image blobs: two that draw, one that does not decode, one that does not draw
ImageBlobs ==
    {PyBytes("ok", 1), PyBytes("ok", 2), PyBytes("undecodable", 3), PyBytes("undrawable", 4)}

RECURSIVE PoolsUpTo(_)
PoolsUpTo(n) ==
    IF n = 0 THEN {<<>>}
    ELSE LET shorter == PoolsUpTo(n - 1)
         IN  shorter \cup {Append(t, img) : t \in shorter, img \in ImageBlobs}

\* records with a pool, with None for it, and without the field
PoolRecords ==
    {[polaroid_images |-> PyList(pool)] : pool \in PoolsUpTo(MaxPool)}
    \cup {[polaroid_images |-> PyNone], [client_name |-> PyStr(<<"a">>)]}

InitPolaroid ==
    /\ pdata \in PoolRecords
    /\ ppage \in 1..3
    /\ psel = <<>>
    /\ pops = <<>>
    /\ ppc = "call"
    /\ WrapIdle /\ ListIdle /\ CardIdle /\ BuildIdle /\ ExtIdle

DrawPagePolaroids ==
    /\ ppc = "call"
    /\ psel' = _polaroids_for_page(pdata, ppage)
    /\ pops' = _draw_page_polaroids(pdata, ppage)
    /\ ppc' = "done"
    /\ UNCHANGED <<pdata, ppage, wrapVars, listVars, cardVars, buildVars, extVars>>

NextPolaroid == DrawPagePolaroids

SpecPolaroid == InitPolaroid /\ [][NextPolaroid]_vars

(***************************************************************************)
(* Claims about _wrap_words (checked under SpecWrap).                      *)
(***************************************************************************)
\* the tokens _wrap_words works on: those of the cleaned text
CleanTokens(text) == split(_safe_str(text, WRAP_TEXT_LENGTH))

\* each token cut to its first max_chars characters, empty results left out
RECURSIVE CutTokens(_, _)
CutTokens(words, max_chars) ==
    IF words = <<>> THEN <<>>
    ELSE LET w == PyPrefix(Head(words), max_chars)
         IN  (IF w # <<>> THEN <<w>> ELSE <<>>) \o CutTokens(Tail(words), max_chars)

HasLongToken == \E i \in 1..Len(CleanTokens(wtext)) : Len(CleanTokens(wtext)[i]) > wmax

C5_LinesWithinBudget ==
    (wpc = "done" /\ wmax >= 1) => \A i \in 1..Len(wlines) : Len(wlines[i]) <= wmax

C5_Witness ==
    /\ wpc = "done"
    /\ wmax >= 1
    /\ Len(wlines) >= 2
    /\ \E i \in 1..Len(wlines) : Len(wlines[i]) = wmax
    /\ \E i \in 1..Len(wlines) : Len(wlines[i]) < wmax
    /\ HasLongToken

BlankInput ==
    \/ wtext.t = "none"
    \/ wtext.t = "str" /\ \A k \in 1..Len(wtext.s) : IsSpace(wtext.s[k])

\* C6: _wrap_words returns at least one line for every input and budget, and
\* for None, empty or whitespace-only input exactly one line, the empty string.
C6_WrapNeverEmpty ==
    wpc = "done" => /\ Len(wlines) >= 1
                    /\ BlankInput => wlines = << <<>> >>

C6_Witness ==
    /\ wpc = "done"
    /\ wtext.t = "str" /\ Len(wtext.s) >= 2 /\ BlankInput
    /\ wlines = << <<>> >>

(***************************************************************************)
(* Claims about _safe_list (checked under SpecList).                       *)
(***************************************************************************)
\* a list source with a truthy entry among its first max_items entries
HasEntryInCap ==
    /\ litems.t = "list"
    /\ \E i \in 1..Min(lmax, Len(litems.l)) : Truthy(litems.l[i])

C8_NormalizerCapped == lpc = "done" => Len(lout) <= lmax

C8_Witness ==
    /\ lpc = "done"
    /\ litems.t = "list" /\ Len(litems.l) > lmax
    /\ \A i \in 1..Len(litems.l) : Truthy(litems.l[i])
    /\ Len(lout) = lmax

(***************************************************************************)
(* Claims about _draw_plan_card (checked under SpecCard).                  *)
(***************************************************************************)
\* C3: every text line _draw_plan_card draws for a card rectangle
\* (x, y_top, w, h) has its baseline inside the rectangle, not below
\* y_top - h, for every admitted content, in the single-card and the two-card
\* arrangement.
C3_CardTextInsideRect ==
    cpc = "done" =>
        LET r == CardRect(carg.arrangement)
        IN  \A i \in 1..Len(cops) :
                cops[i].op = "drawString" =>
                    /\ cops[i].y >= r.y_top - r.h
                    /\ cops[i].y <= r.y_top

(***************************************************************************)
(* Claims about build_quote_pdf and the generate handler (checked under    *)
(* SpecBuild).                                                             *)
(***************************************************************************)
\* positions of a run past the validation of the record
PastValidation == {"raised", "validated", "summary", "coverage", "about", "save", "returned"}

\* the record lacks a required field, or its selected_plans is not a list
C1_InvalidRecord ==
    \/ \E key \in {"client_name", "client_email", "quote_date", "total_price",
                   "selected_plans"} : key \notin DOMAIN quoteData
    \/ quoteData["selected_plans"].t # "list"

\* the error the claim expects for the record, the fields looked up in the
\* stated order
C1_ExpectedError ==
    IF "client_name" \notin DOMAIN quoteData
    THEN <<"Missing required field: ", "client_name">>
    ELSE IF "client_email" \notin DOMAIN quoteData
    THEN <<"Missing required field: ", "client_email">>
    ELSE IF "quote_date" \notin DOMAIN quoteData
    THEN <<"Missing required field: ", "quote_date">>
    ELSE IF "total_price" \notin DOMAIN quoteData
    THEN <<"Missing required field: ", "total_price">>
    ELSE IF "selected_plans" \notin DOMAIN quoteData
    THEN <<"Missing required field: ", "selected_plans">>
    ELSE <<"selected_plans must be a list">>

\* C1: build_quote_pdf called with a record that lacks a required field (or
\* whose selected_plans is not a list) raises one ValueError naming the
\* first missing required field in the order client_name, client_email,
\* quote_date, total_price, selected_plans, before the canvas is created or
\* any draw operation is issued, and returns no document bytes.
C1_InvalidRecordRaisesBeforeDrawing ==
    (bpc \in PastValidation /\ C1_InvalidRecord) =>
        /\ bpc = "raised"
        /\ result = [kind |-> "ValueError", message |-> C1_ExpectedError, pages |-> 0]
        /\ ~canvas.created
        /\ drawLog = <<>>

C1_Witness ==
    /\ bpc = "raised"
    /\ "client_email" \notin DOMAIN quoteData
    /\ "total_price" \notin DOMAIN quoteData
    /\ "client_name" \in DOMAIN quoteData
    /\ result.message = <<"Missing required field: ", "client_email">>

PageOrder == <<"Summary", "Coverage", "About">>

PageRank(pc) ==
    CASE pc \in {"idle", "form", "called", "failed", "raised", "validated"} -> 0
      [] pc = "summary" -> 1
      [] pc = "coverage" -> 2
      [] pc = "about" -> 3
      [] pc = "save" -> 4
      [] pc = "returned" -> 5

\* every emitted page holds its own section and nothing else, the operations
\* are in page order, and a returned run has emitted the three pages
C2_PagesInOrder ==
    /\ \A p \in 1..Len(canvas.closed) : canvas.closed[p] = {PageOrder[p]}
    /\ \A i \in 1..Len(drawLog) :
          /\ drawLog[i].page \in 1..3
          /\ drawLog[i].part = PageOrder[drawLog[i].page]
          /\ \A j \in 1..i : drawLog[j].page <= drawLog[i].page
    /\ bpc = "returned" =>
          /\ canvas.closed = <<{"Summary"}, {"Coverage"}, {"About"}>>
          /\ result.pages = 3
          /\ canvas.saved

\* a step of a call only moves forward: the log of operations grows at its end, the
\* new operations go to the open page, which is not an emitted one, emitted
\* pages stay as they are, and the record read while drawing does not change
C2_ForwardStep ==
    run' = run =>
    /\ PageRank(bpc') >= PageRank(bpc)
    /\ canvas'.page >= canvas.page
    /\ Len(canvas'.closed) >= Len(canvas.closed)
    /\ SubSeq(canvas'.closed, 1, Len(canvas.closed)) = canvas.closed
    /\ Len(drawLog') >= Len(drawLog)
    /\ SubSeq(drawLog', 1, Len(drawLog)) = drawLog
    /\ \A i \in (Len(drawLog) + 1)..Len(drawLog') :
          /\ drawLog'[i].page = canvas'.page
          /\ drawLog'[i].page > Len(canvas'.closed)
    /\ PageRank(bpc) >= 1 => quoteData' = quoteData /\ logoFile' = logoFile

\* C2: every build_quote_pdf call that returns emits exactly three pages in
\* the order Summary, Coverage, About: the page state only moves forward, no
\* draw operation is issued for a page after it has been closed, and the
\* operations of a page do not depend on what is drawn on a later page.
C2_ThreePagesForwardOnly == [](C2_PagesInOrder) /\ [][C2_ForwardStep]_vars

C2_Witness ==
    /\ bpc = "returned"
    /\ canvas.closed = <<{"Summary"}, {"Coverage"}, {"About"}>>
    /\ \A p \in 1..3 : \E i \in 1..Len(drawLog) : drawLog[i].page = p

\* the number a text of decimal digits stands for
RECURSIVE C9_Value(_)
C9_Value(digits) ==
    IF digits = <<>> THEN 0
    ELSE 10 * C9_Value(SubSeq(digits, 1, Len(digits) - 1))
         + (CHOOSE d \in 0..9 : Digit(d) = digits[Len(digits)])

\* the cents printed by a text "<units>.<dd> E"
C9_PrintedCents(text) ==
    100 * C9_Value(SubSeq(text, 1, Len(text) - 5))
    + C9_Value(SubSeq(text, Len(text) - 3, Len(text) - 2))

C9_WellFormed(text) ==
    /\ Len(text) >= 6
    /\ text[Len(text) - 4] = "."
    /\ SubSeq(text, Len(text) - 1, Len(text)) = <<" ", "E">>
    /\ \A i \in (1..(Len(text) - 2)) \ {Len(text) - 4} : \E d \in 0..9 : text[i] = Digit(d)
    /\ Len(text) > 6 => text[1] # "0"

\* the sum over the selected plans of price times quantity, in cents
C9_Quantity == IF quoteForm.quote_mode = BULK THEN quoteForm.pet_count ELSE 1

C9_ExpectedCents ==
    (IF \E i \in 1..Len(quoteForm.selected_plans) : quoteForm.selected_plans[i] = PLAN_1_KEY
     THEN quoteForm.plan_1_price * C9_Quantity ELSE 0)
    + (IF \E i \in 1..Len(quoteForm.selected_plans) : quoteForm.selected_plans[i] = PLAN_2_KEY
       THEN quoteForm.plan_2_price * C9_Quantity ELSE 0)

C9_TotalOps == {i \in 1..Len(drawLog) : drawLog[i].id = "total_price"}

C9_BothAtListPrice ==
    /\ Len(quoteForm.selected_plans) = 2
    /\ quoteForm.plan_1_price = 18900
    /\ quoteForm.plan_2_price = 8500

\* C9: the total annual premium is the sum, over the selected plans only, of
\* the plan's price times the multiplier (1 in detailed mode, the pet count
\* in bulk mode; 189.00 and 85.00 both selected give 274.00 in detailed mode
\* and 1644.00 in bulk mode with 6 pets), and the total bar of the PDF
\* prints that value.
C9_TotalIsSumOfSelected ==
    (entry = "app" /\ PageRank(bpc) >= 2) =>
        /\ Cardinality(C9_TotalOps) = 1
        /\ \A i \in C9_TotalOps :
              /\ drawLog[i].page = 1
              /\ C9_WellFormed(drawLog[i].text)
              /\ C9_PrintedCents(drawLog[i].text) = C9_ExpectedCents
              /\ (C9_BothAtListPrice /\ quoteForm.quote_mode = DETAILED)
                    => drawLog[i].text = <<"2", "7", "4", ".", "0", "0", " ", "E">>
              /\ (C9_BothAtListPrice /\ quoteForm.quote_mode = BULK
                  /\ quoteForm.pet_count = 6)
                    => drawLog[i].text = <<"1", "6", "4", "4", ".", "0", "0", " ", "E">>

C9_Witness ==
    /\ entry = "app" /\ bpc = "returned"
    /\ C9_BothAtListPrice /\ quoteForm.quote_mode = BULK /\ quoteForm.pet_count = 6
    /\ \E i \in C9_TotalOps : drawLog[i].text = <<"1", "6", "4", "4", ".", "0", "0", " ", "E">>

Plan1Fields ==
    {"plan_1_name", "plan_1_provider", "plan_1_price", "plan_1_price_total", "plan1_limit",
     "plan1_area", "plan1_key_facts", "plan1_covers", "plan1_exclusions", "plan1_waiting"}

Plan2Fields ==
    {"plan_2_name", "plan_2_provider", "plan_2_price", "plan_2_price_total", "plan2_limit",
     "plan2_area", "plan2_key_facts", "plan2_covers", "plan2_exclusions", "plan2_waiting"}

C10_Cards == {i \in 1..Len(drawLog) : drawLog[i].id = "card"}
C10_Titles == {i \in 1..Len(drawLog) : drawLog[i].id = "card_title"}

\* the document shows one full-width card titled with the name, and nothing
\* of the other plan: no operation reads one of its fields or holds its mark
C10_OnlyPlan(name, otherFields, otherMark) ==
    /\ PageRank(bpc) >= 3 =>
          /\ Cardinality(C10_Cards) = 1
          /\ \A i \in C10_Cards :
                /\ drawLog[i].page = 2
                /\ drawLog[i].x = MARGIN
                /\ drawLog[i].w = W - 2 * MARGIN
          /\ Cardinality(C10_Titles) = 1
          /\ \A i \in C10_Titles :
                SubSeq(drawLog[i].text, 1, Len(name) + 2) = name \o <<" ", "(">>
    /\ \A i \in 1..Len(drawLog) :
          /\ drawLog[i].src \cap otherFields = {}
          /\ ~Contains(drawLog[i].text, <<otherMark>>)

\* C10: with exactly one plan selected and it is plan 1, the coverage page
\* draws exactly one card, at full page width, titled with the name of plan
\* 1, and no field of plan 2 appears in any draw operation of the document;
\* and likewise for plan 2 selected alone.
C10_SinglePlanAlone ==
    (entry = "app" /\ PageRank(bpc) >= 1) =>
        /\ quoteForm.selected_plans = <<PLAN_1_KEY>> =>
              C10_OnlyPlan(quoteData["plan_1_name"].s, Plan2Fields, "Z")
        /\ quoteForm.selected_plans = <<PLAN_2_KEY>> =>
              C10_OnlyPlan(quoteData["plan_2_name"].s, Plan1Fields, "Q")

C10_Witness ==
    /\ entry = "app" /\ bpc = "returned"
    /\ quoteForm.selected_plans = <<PLAN_1_KEY>>
    /\ \E i \in C10_Cards : drawLog[i].w = W - 2 * MARGIN
    /\ \E i \in 1..Len(drawLog) :
          /\ drawLog[i].id = "bullet"
          /\ Contains(drawLog[i].text, <<"Q">>)

\* the card rectangles of page 2, in the order they are drawn
C11_CardRects ==
    LET idx == {i \in 1..Len(drawLog) : drawLog[i].id = "card" /\ drawLog[i].page = 2}
    IN  {drawLog[i] : i \in idx}

C11_LeftCards == {r \in C11_CardRects : r.x = 14 * mm}
C11_RightCards == {r \in C11_CardRects : r.x # 14 * mm}

\* C11: in the two-card arrangement the two card rectangles have the equal
\* width (page width - 2 margins - gap) / 2, the same top edge and height,
\* the right card begins at the left card's right edge plus the gap, so they
\* do not overlap and lie within the page margins; and no card rectangle,
\* single or dual, reaches down to the footer line.
C11_CardRectsDisjoint ==
    PageRank(bpc) >= 3 =>
        /\ \A r \in C11_CardRects :
              /\ r.x >= 14 * mm
              /\ r.x + r.w <= 210 * mm - 14 * mm
              /\ r.y > 12 * mm
              /\ r.w > 0 /\ r.h > 0
        /\ Len(SelectedOf(quoteData)) # 1 =>
              /\ \A r \in C11_CardRects : 2 * r.w = 210 * mm - 2 * 14 * mm - 8 * mm
              /\ \A l \in C11_LeftCards : \A r \in C11_RightCards :
                    /\ r.x = l.x + l.w + 8 * mm
                    /\ r.y = l.y /\ r.h = l.h
                    /\ l.x + l.w < r.x

C11_Witness ==
    /\ bpc = "returned"
    /\ Len(SelectedOf(quoteData)) = 2
    /\ C11_LeftCards # {} /\ C11_RightCards # {}


(***************************************************************************)
(* Claims about the decorative images (checked under SpecPolaroid).        *)
(***************************************************************************)
\* the pool of the record: its images, none when absent, None or empty
C12_Pool ==
    IF "polaroid_images" \in DOMAIN pdata /\ pdata["polaroid_images"].t = "list"
    THEN pdata["polaroid_images"].l ELSE <<>>

\* the pool entry at a 0-based index
C12_At(index) == C12_Pool[index + 1]

C12_Rotation ==
    /\ Len(C12_Pool) = 3 /\ ppage = 1 => psel = <<C12_Pool[1], C12_Pool[2]>>
    /\ Len(C12_Pool) = 3 /\ ppage = 2 => psel = <<C12_Pool[2], C12_Pool[3]>>
    /\ Len(C12_Pool) = 3 /\ ppage = 3 => psel = <<C12_Pool[3], C12_Pool[1]>>
    /\ Len(C12_Pool) = 0 => psel = <<>> /\ pops = <<>>

\* C12 as stated: for every pool of N >= 1 images and page 1, 2 or 3,
\* _polaroids_for_page selects two images, the entries at (p-1) mod N and
\* p mod N in that order; for an empty or absent pool it selects none.
C12_TwoImagesPerPage ==
    ppc = "done" =>
        /\ C12_Rotation
        /\ Len(C12_Pool) >= 1 =>
              psel = <<C12_At((ppage - 1) % Len(C12_Pool)), C12_At(ppage % Len(C12_Pool))>>

\* C12 amended: for a pool of N >= 2 images _polaroids_for_page selects the
\* two entries at (p-1) mod N and p mod N in that order (N = 3: (0,1), (1,2),
\* (2,0)); for a pool of one image it selects that image once; for an empty
\* or absent pool it selects none; it never indexes outside the pool.
C12_RotatingPair ==
    ppc = "done" =>
        /\ C12_Rotation
        /\ Len(C12_Pool) >= 2 =>
              psel = <<C12_At((ppage - 1) % Len(C12_Pool)), C12_At(ppage % Len(C12_Pool))>>
        /\ Len(C12_Pool) = 1 => psel = <<C12_Pool[1]>>
        /\ \A i \in 1..Len(psel) : \E k \in 1..Len(C12_Pool) : psel[i] = C12_Pool[k]

C12_Witness ==
    /\ ppc = "done"
    /\ Len(C12_Pool) = 3 /\ ppage = 3
    /\ C12_Pool[1] # C12_Pool[3] /\ C12_Pool[1] # C12_Pool[2]
    /\ psel = <<C12_Pool[3], C12_Pool[1]>>


(***************************************************************************)
(* Claims about the About page (checked under SpecBuild).                  *)
(***************************************************************************)
\* the bullets drawn in a bullet region of the About page
C13_Bullets(region) ==
    {i \in 1..Len(drawLog) : drawLog[i].op = "paragraph" /\ drawLog[i].id = region}

\* C13: on the About page every bullet region (credentials, EUROLIFE
\* highlights, INTERLIFE highlights) is rendered with at least one bullet for
\* every value of its record field: a missing field, an empty list and a
\* list whose entries are all empty strings each give one placeholder bullet.
C13_NoBlankBulletRegion ==
    PageRank(bpc) >= 4 =>
        \A region \in {"cii", "eurolife", "interlife"} : C13_Bullets(region) # {}


C14_BioOps == {i \in 1..Len(drawLog) : drawLog[i].op = "paragraph" /\ drawLog[i].id = "bio"}

\* the positions of a text that hold a character other than white space
C14_Letters(text) == {k \in 1..Len(text) : text[k] \notin {" ", "\n", "\t", "\r"}}

\* the positions of a rendered text that belong to a line-break marker
C14_InMarker(text) ==
    {k \in 1..Len(text) :
        \E j \in (k - 4)..k :
            j >= 1 /\ j + 4 <= Len(text)
            /\ SubSeq(text, j, j + 4) = <<"<", "b", "r", "/", ">">>}

\* C14: the advisor bio is never truncated: for every about_bio text the
\* form admits (up to 3000 characters), every character of it reaches the
\* rendered bio paragraph.
C14_BioNeverTruncated ==
    (entry = "app" /\ PageRank(bpc) >= 4 /\ quoteForm.about_bio # <<>>
     /\ \A k \in 1..Len(quoteForm.about_bio) : quoteForm.about_bio[k] \notin {"&", "<", ">", "'", "\""}) =>
        /\ Cardinality(C14_BioOps) = 1
        /\ \A i \in C14_BioOps :
              LET shown == drawLog[i].text
                  bio == quoteForm.about_bio
              IN  /\ Cardinality(C14_Letters(shown) \ C14_InMarker(shown))
                        = Cardinality(C14_Letters(bio))
                  /\ \A k \in C14_Letters(bio) :
                        \E n \in C14_Letters(shown) : shown[n] = bio[k]


(***************************************************************************)
(* Claims about the Summary page (checked under SpecBuild).                *)
(***************************************************************************)
C15_NotesLines == {i \in 1..Len(drawLog) : drawLog[i].id = "notes"}

\* C15: on the Summary page the notes block stops before the footer region:
\* for every notes text, mode and plan selection no wrapped notes line is
\* drawn at or below the footer's baseline, 12 mm from the page bottom.
C15_NotesAboveFooter ==
    PageRank(bpc) >= 2 =>
        \A i \in C15_NotesLines :
            /\ drawLog[i].page = 1
            /\ drawLog[i].y > 12 * mm

C15_Witness ==
    /\ bpc = "returned"
    /\ Len(SelectedOf(quoteData)) = 2
    /\ Cardinality(C15_NotesLines) = 9
    /\ \E i \in C15_NotesLines : Len(drawLog[i].text) = 112


C16_Entities ==
    {<<"&", "a", "m", "p", ";">>, <<"&", "l", "t", ";">>, <<"&", "g", "t", ";">>,
     <<"&", "q", "u", "o", "t", ";">>, <<"&", "#", "x", "2", "7", ";">>}

C16_At(text, k, part) ==
    k >= 1 /\ k + Len(part) - 1 <= Len(text) /\ SubSeq(text, k, k + Len(part) - 1) = part

\* every & of the text begins an entity, and every < and > belongs to a
\* line-break marker where markers are admitted
C16_Escaped(text, markers) ==
    \A k \in 1..Len(text) :
        /\ text[k] = "&" => \E e \in C16_Entities : C16_At(text, k, e)
        /\ text[k] = "<" => markers /\ C16_At(text, k, <<"<", "b", "r", "/", ">">>)
        /\ text[k] = ">" => markers /\ C16_At(text, k - 4, <<"<", "b", "r", "/", ">">>)

\* C16: every string handed to Paragraph (the advisor bio and every
\* credentials or highlights bullet) has its characters &, < and > escaped,
\* the only raw markup being the line-break marker put into the bio after
\* escaping; user text with '<br/>' or '<b>' is shown as text.
C16_MarkupEscaped ==
    (entry = "app" /\ PageRank(bpc) >= 4) =>
        \A i \in 1..Len(drawLog) :
            drawLog[i].op = "paragraph" =>
                C16_Escaped(drawLog[i].text, drawLog[i].id = "bio")


(***************************************************************************)
(* Claims about repeated calls (checked under SpecBuild).                  *)
(***************************************************************************)
C17_SecondCallDone == run = 2 /\ bpc \in {"returned", "raised"}

\* C17 as stated: two calls of build_quote_pdf with an identical record and
\* identical image bytes, the second possibly on the very record object the
\* first was given, issue the same sequence of draw operations and yield
\* identical output.
C17_IdenticalOutput ==
    C17_SecondCallDone =>
        /\ drawLog = prev.ops
        /\ result = prev.result
        /\ canvas.closed = prev.pages
        /\ canvas.stamp = prev.stamp

\* C17 amended: the two calls issue the same sequence of draw operations,
\* emit the same pages and return or raise alike; the document bytes agree
\* in everything but the creation time written into the document, which is
\* the same only when the clock has not moved between the calls.
C17_SameDrawOperations ==
    C17_SecondCallDone =>
        /\ drawLog = prev.ops
        /\ result = prev.result
        /\ canvas.closed = prev.pages
        /\ (clock = prev.stamp => canvas.stamp = prev.stamp)

C17_Witness ==
    /\ run = 2 /\ bpc = "returned"
    /\ entry = "app" /\ Len(quoteForm.about_bio) > 500
    /\ quoteData # sanitized_data(quoteForm)
    /\ drawLog = prev.ops /\ drawLog # <<>>
    /\ canvas.stamp # prev.stamp


(***************************************************************************)
(* Claims about images that fail (checked under SpecBuild).                *)
(***************************************************************************)
C18_Pool == Get(quoteData, "polaroid_images", PyList(<<>>)).l
C18_Fails(img) == img.s \in {<<"undecodable">>, <<"undrawable">>}
C18_HasFailingImage ==
    /\ bpc \in {"summary", "coverage", "about", "save", "returned"}
    /\ \E i \in 1..Len(C18_Pool) : C18_Fails(C18_Pool[i])

\* operations that are not those of a polaroid
C18_Rest(ops) == SelectSeq(ops, LAMBDA o : o.src # {"polaroid_images"})
C18_NoImages == [quoteData EXCEPT !.polaroid_images = PyList(<<>>)]

\* what the pages drawn so far hold for the same record with no image
C18_PagesWithoutImages ==
    (IF bpc \in {"coverage", "about", "save", "returned"}
     THEN OnPage(SummaryOps(C18_NoImages, logoFile), [page |-> 1]) ELSE <<>>)
    \o (IF bpc \in {"about", "save", "returned"}
        THEN OnPage(CoverageOps(C18_NoImages, logoFile), [page |-> 2]) ELSE <<>>)
    \o (IF bpc \in {"save", "returned"}
        THEN OnPage(AboutOps(C18_NoImages, logoFile), [page |-> 3]) ELSE <<>>)

\* saveState minus restoreState over the first n operations
C18_Depth(n) ==
    Cardinality({i \in 1..n : drawLog[i].op = "saveState"})
    - Cardinality({i \in 1..n : drawLog[i].op = "restoreState"})

\* C18: with an image in the pool that fails to decode or to draw, the call
\* raises nothing, every saveState of a polaroid has its restoreState (the
\* graphics state is the initial one before and after each polaroid, and
\* saved only while the polaroid is drawn), and everything else on the page
\* and on the following pages is what it is for the record without images.
C18_FailingImageSkipped ==
    C18_HasFailingImage =>
        /\ result.kind # "error"
        /\ C18_Depth(Len(drawLog)) = 0
        /\ \A i \in 1..Len(drawLog) :
              /\ C18_Depth(i) \in {0, 1}
              /\ drawLog[i].src # {"polaroid_images"} => C18_Depth(i) = 0
              /\ drawLog[i].op = "rotate" => C18_Depth(i) = 1
        /\ C18_Rest(drawLog) = C18_PagesWithoutImages

C18_Count(id) == Cardinality({i \in 1..Len(drawLog) : drawLog[i].id = id})

\* all three pages drawn; of the six selected blobs two do not decode (no
\* frame) and two do not draw (a frame without its image)
C18_Witness ==
    /\ C18_HasFailingImage /\ bpc = "returned" /\ result.kind = "bytes"
    /\ C18_Count("polaroid_frame") = 4
    /\ C18_Count("polaroid_image") = 2
    /\ C18_Count("footer") = 3


(***************************************************************************)
(* Claims about the limits of validation (checked under SpecBuild).        *)
(***************************************************************************)
\* the record the call was given, and the call being past its validation
C19_Given == IF entry = "direct" THEN orig ELSE sanitized_data(quoteForm)
C19_PastValidate ==
    bpc \in {"raised", "validated", "summary", "coverage", "about", "save", "returned"}
C19_HasRequired == \A i \in 1..Len(required_fields) : Has(C19_Given, required_fields[i])

C19_TextCapped(v) == v.t = "none" \/ (v.t = "str" /\ Len(v.s) <= MAX_TEXT_LENGTH)
C19_ListCapped(v) ==
    /\ v.t = "list" /\ Len(v.l) <= MAX_LIST_ITEMS
    /\ \A i \in 1..Len(v.l) : v.l[i].t = "str" /\ Len(v.l[i].s) <= MAX_TEXT_LENGTH
C19_PoolCapped(v) ==
    /\ v.t = "list" /\ Len(v.l) <= MAX_POLAROID_IMAGES
    /\ \A i \in 1..Len(v.l) :
          /\ v.l[i].t = "bytes" /\ v.l[i].n > 0
          /\ v.l[i].n <= MAX_IMAGE_SIZE_MB * 1024 * 1024

C19_Capped ==
    /\ bpc # "raised"
    /\ DOMAIN quoteData = DOMAIN C19_Given
    /\ \A key \in DOMAIN quoteData :
          /\ key \in text_fields => C19_TextCapped(quoteData[key])
          /\ key \in list_fields =>
                /\ C19_ListCapped(quoteData[key])
                /\ C19_Given[key].t # "list" => quoteData[key].l = <<>>
          /\ key = "polaroid_images" => C19_PoolCapped(quoteData[key])

\* C19 as stated: for every record that has the required fields,
\* _validate_data_dict returns without raising, and afterwards every text
\* field, list field and the image pool are within their limits.
C19_NeverAnError == (C19_PastValidate /\ C19_HasRequired) => C19_Capped

\* C19 amended: for every record that has the required fields and a list
\* for selected_plans, _validate_data_dict returns without raising, and
\* afterwards each listed text field that is not None has at most 500
\* characters, each listed list field has at most 20 items of at most 500
\* characters (a non-list value becomes the empty list), and polaroid_images
\* holds at most 10 blobs, each non-empty bytes of at most 10 MB; a record
\* whose selected_plans is not a list raises ValueError.
C19_CappedWhenPlansAreAList ==
    (C19_PastValidate /\ C19_HasRequired) =>
        IF C19_Given["selected_plans"].t = "list"
        THEN C19_Capped
        ELSE bpc = "raised" /\ result.message = <<"selected_plans must be a list">>

C19_Witness ==
    /\ bpc = "validated" /\ entry = "direct" /\ run = 1
    /\ Len(PyStrOf(orig["client_name"])) > MAX_TEXT_LENGTH
    /\ Len(quoteData["client_name"].s) = MAX_TEXT_LENGTH
    /\ quoteData["location"] = PyStr(<<"7">>)
    /\ Len(orig["cii_titles"].l) > MAX_LIST_ITEMS
    /\ Len(quoteData["cii_titles"].l) = MAX_LIST_ITEMS
    /\ quoteData["plan1_covers"] = PyList(<<>>)
    /\ Len(orig["polaroid_images"].l) > MAX_POLAROID_IMAGES
    /\ Len(quoteData["polaroid_images"].l) = MAX_POLAROID_IMAGES - 3


(***************************************************************************)
(* Claims about the order of drawing on a page (checked under SpecBuild).  *)
(***************************************************************************)
\* content of the page, then its decorative images, then its footer
C21_Rank(o) ==
    CASE o.id \in {"footer", "footer_tagline"} -> 2
      [] o.src = {"polaroid_images"} -> 1
      [] OTHER -> 0

C21_PagesDrawn == {drawLog[i].page : i \in 1..Len(drawLog)}

\* C21: on each of the three pages the decorative images are drawn only
\* after all of the page's content and the footer after the images; the two
\* footer strings are the last operations of the page, so that nothing is
\* drawn between the footer and the closing of the page.
C21_FooterDrawnLast ==
    /\ \A i, j \in 1..Len(drawLog) :
          (i < j /\ drawLog[i].page = drawLog[j].page)
              => C21_Rank(drawLog[i]) <= C21_Rank(drawLog[j])
    /\ \A i \in 1..Len(drawLog) :
          drawLog[i].page <= drawLog[IF i < Len(drawLog) THEN i + 1 ELSE i].page
    /\ \A p \in C21_PagesDrawn :
          Cardinality({i \in 1..Len(drawLog) :
                         drawLog[i].page = p /\ C21_Rank(drawLog[i]) = 2}) = 2
    /\ \A k \in 1..Len(canvas.closed) : k \in C21_PagesDrawn

\* the footer once drawn stays the end of its page: a step of a call adds
\* operations only to a page that has no footer yet
C21_NothingAfterFooter ==
    run' = run =>
        \A i \in (Len(drawLog) + 1)..Len(drawLog') :
            drawLog'[i].page \notin C21_PagesDrawn

C21_FooterLastOnEveryPage == [](C21_FooterDrawnLast) /\ [][C21_NothingAfterFooter]_vars

C21_Witness ==
    /\ bpc = "returned" /\ C21_PagesDrawn = {1, 2, 3}
    /\ \A p \in 1..3 : \E i, j, k \in 1..Len(drawLog) :
          /\ i < j /\ j < k
          /\ drawLog[i].page = p /\ drawLog[j].page = p /\ drawLog[k].page = p
          /\ C21_Rank(drawLog[i]) = 0 /\ drawLog[j].id = "polaroid_frame"
          /\ C21_Rank(drawLog[k]) = 2


(***************************************************************************)
(* pdf_utils.py: validation of PDF bytes and the merge with the IPIDs.     *)
(***************************************************************************)
MB == 1024 * 1024
MAX_SIZE_MB == 50

\* PDF bytes: their length, whether they start with %PDF-, whether
\* PdfReader reads them, their pages (each with the bytes it takes in a
\* document), and how many of the pages add_page copies before it raises
PdfBytes(n, signed, readable, pages, sound) ==
    [n |-> n, signed |-> signed, readable |-> readable, pages |-> pages, sound |-> sound]

PdfPage(id, n) == [id |-> id, n |-> n]

RECURSIVE PagesSize(_)
PagesSize(pages) == IF pages = <<>> THEN 0 ELSE Head(pages).n + PagesSize(Tail(pages))

\* validate_pdf_bytes: the message of the PDFError it raises, <<>> for True
validate_pdf_bytes(pdf_bytes, max_size_mb) ==
    IF pdf_bytes.n = 0 THEN <<"PDF is empty">>
    ELSE IF pdf_bytes.n > max_size_mb * MB THEN <<"PDF too large">>
    ELSE IF ~pdf_bytes.signed THEN <<"Invalid PDF file (missing PDF signature)">>
    ELSE IF ~pdf_bytes.readable THEN <<"Corrupted or invalid PDF">>
    ELSE IF Len(pdf_bytes.pages) = 0 THEN <<"Failed to validate PDF: PDF has no pages">>
    ELSE <<>>

\* a path of the file system: nothing, a directory, or a file with its bytes
NoFile == [exists |-> FALSE, is_file |-> FALSE, bytes |-> <<>>]
Directory == [exists |-> TRUE, is_file |-> FALSE, bytes |-> <<>>]
File(bytes) == [exists |-> TRUE, is_file |-> TRUE, bytes |-> bytes]

\* validate_pdf_file, for a path whose suffix is .pdf
validate_pdf_file(file) ==
    IF ~file.exists THEN <<"PDF file not found">>
    ELSE IF ~file.is_file THEN <<"Not a file">>
    ELSE validate_pdf_bytes(file.bytes, MAX_SIZE_MB)

\* config.IPID_MAP.get(plan_key): the path of the plan's IPID, or None
IPID_MAP(plan_key) ==
    CASE plan_key = PLAN_1_KEY -> "PETCARE_PLUS_IPID.pdf"
      [] plan_key = PLAN_2_KEY -> "EUROLIFE_MY_HAPPY_PET_IPID.pdf"
      [] OTHER -> ""

\* the body of the inner try for one IPID: the pages the writer has
\* afterwards; a raise leaves what add_page has copied until then
AddIpid(writer, file, validate_ipids) ==
    IF validate_ipids /\ validate_pdf_file(file) # <<>> THEN writer
    ELSE IF ~file.is_file \/ file.bytes.n = 0 \/ ~file.bytes.readable THEN writer
    ELSE writer \o SubSeq(file.bytes.pages, 1, file.bytes.sound)

\* for plan_key in selected_plans
RECURSIVE AddIpids(_, _, _, _)
AddIpids(writer, selected_plans, files, validate_ipids) ==
    IF selected_plans = <<>> THEN writer
    ELSE LET ipid_path == IPID_MAP(Head(selected_plans))
             next == IF ipid_path = "" THEN writer
                     ELSE IF ~files[ipid_path].exists THEN writer
                     ELSE AddIpid(writer, files[ipid_path], validate_ipids)
         IN  AddIpids(next, Tail(selected_plans), files, validate_ipids)

\* writer.write(output): the bytes of the merged document
Written(pages) == PdfBytes(PagesSize(pages), TRUE, TRUE, pages, Len(pages))

NoMerge == [kind |-> "none", message |-> <<>>, bytes |-> <<>>]

merge_quote_with_ipids(quote_pdf_bytes, selected_plans, files, validate_ipids) ==
    IF validate_pdf_bytes(quote_pdf_bytes, MAX_SIZE_MB) # <<>>
    THEN [NoMerge EXCEPT !.kind = "PDFError",
                         !.message = validate_pdf_bytes(quote_pdf_bytes, MAX_SIZE_MB)]
    ELSE IF quote_pdf_bytes.sound < Len(quote_pdf_bytes.pages)
    THEN [NoMerge EXCEPT !.kind = "PDFError", !.message = <<"Failed to merge PDFs">>]
    ELSE LET merged_bytes == Written(AddIpids(quote_pdf_bytes.pages, selected_plans,
                                              files, validate_ipids))
         IN  IF validate_pdf_bytes(merged_bytes, MAX_SIZE_MB) # <<>>
             THEN [NoMerge EXCEPT !.kind = "PDFError",
                                  !.message = validate_pdf_bytes(merged_bytes, MAX_SIZE_MB)]
             ELSE [NoMerge EXCEPT !.kind = "bytes", !.bytes = merged_bytes]

(***************************************************************************)
(* Inputs of the merge.                                                    *)
(***************************************************************************)
\* a document of k pages of n bytes each
Doc(name, k, n) ==
    PdfBytes(k * n, TRUE, TRUE, [i \in 1..k |-> PdfPage(<<name, i>>, n)], k)

EmptyBytes == PdfBytes(0, FALSE, FALSE, <<>>, 0)

QuoteDocs ==
    { Doc("quote", 3, 1000), Doc("quote", 1, 30 * MB), Doc("quote", 1, MAX_SIZE_MB * MB + 1),
      [Doc("quote", 3, 1000) EXCEPT !.signed = FALSE], EmptyBytes }

IpidFiles(name) ==
    { NoFile, Directory, File(EmptyBytes),
      File(Doc(name, 2, 1000)), File(Doc(name, 1, 15 * MB)),
      File([Doc(name, 2, 1000) EXCEPT !.signed = FALSE]),
      File([Doc(name, 2, 1000) EXCEPT !.readable = FALSE]),
      File([Doc(name, 2, 1000) EXCEPT !.sound = 1]) }

FileSystems ==
    { [path \in {"PETCARE_PLUS_IPID.pdf", "EUROLIFE_MY_HAPPY_PET_IPID.pdf"} |->
          IF path = "PETCARE_PLUS_IPID.pdf" THEN f1 ELSE f2] :
        f1 \in IpidFiles("ipid1"), f2 \in IpidFiles("ipid2") }

RECURSIVE PlanListsUpTo(_)
PlanListsUpTo(n) ==
    IF n = 0 THEN {<<>>}
    ELSE LET shorter == PlanListsUpTo(n - 1)
         IN  shorter \cup {Append(t, k) : t \in shorter, k \in {PLAN_1_KEY, PLAN_2_KEY, OTHER_KEY}}

(***************************************************************************)
(* Specification of a call of merge_quote_with_ipids.                      *)
(***************************************************************************)
InitMerge ==
    /\ mquote \in QuoteDocs
    /\ mplans \in PlanListsUpTo(MaxPlans)
    /\ mfiles \in FileSystems
    /\ mvalidate \in BOOLEAN
    /\ mresult = NoMerge
    /\ mpc = "call"
    /\ WrapIdle /\ ListIdle /\ CardIdle /\ BuildIdle /\ PolaroidIdle /\ LimiterIdle
    /\ SessionIdle /\ StrIdle

MergeCall ==
    /\ mpc = "call"
    /\ mresult' = merge_quote_with_ipids(mquote, mplans, mfiles, mvalidate)
    /\ mpc' = "done"
    /\ UNCHANGED <<mquote, mplans, mfiles, mvalidate, wrapVars, listVars, cardVars,
                   buildVars, polaroidVars, limiterVars, sessionVars, strVars>>

NextMerge == MergeCall

SpecMerge == InitMerge /\ [][NextMerge]_vars


(***************************************************************************)
(* Claims about the merge (checked under SpecMerge).                       *)
(***************************************************************************)
\* an IPID is available when its plan is mapped and its file exists, is
\* valid and can be read and copied whole
C22_Available(plan_key) ==
    /\ IPID_MAP(plan_key) # ""
    /\ validate_pdf_file(mfiles[IPID_MAP(plan_key)]) = <<>>
    /\ mfiles[IPID_MAP(plan_key)].bytes.sound = Len(mfiles[IPID_MAP(plan_key)].bytes.pages)

RECURSIVE C22_IpidPages(_)
C22_IpidPages(plans) ==
    IF plans = <<>> THEN <<>>
    ELSE (IF C22_Available(Head(plans)) THEN mfiles[IPID_MAP(Head(plans))].bytes.pages
          ELSE <<>>)
         \o C22_IpidPages(Tail(plans))

C22_QuoteValid == validate_pdf_bytes(mquote, MAX_SIZE_MB) = <<>>

\* C22: for a valid quote and every list of selected plans the merge
\* returns the pages of the quote in their order followed by the pages of
\* each available IPID in the order of selected_plans; a plan without
\* mapping, a missing file or an invalid IPID adds no page and does not
\* make the merge fail.
C22_MergeIsAdditive ==
    (mpc = "done" /\ C22_QuoteValid /\ mvalidate) =>
        /\ mresult.kind = "bytes"
        /\ mresult.bytes.pages = mquote.pages \o C22_IpidPages(mplans)


(***************************************************************************)
(* email_utils.py: EmailRateLimiter and the module-level _rate_limiter.    *)
(* A thread runs check_and_record or get_remaining statement by statement; *)
(* the clock is read once, at the start of the method.                     *)
(***************************************************************************)
max_emails == MaxEmails
window_seconds == WindowSeconds

\* what a method gave: nothing yet, a value (True is 1), or an exception
NoReturn == [kind |-> "none", value |-> 0]
Returned(value) == [kind |-> "return", value |-> value]
Raised(exception) == [kind |-> exception, value |-> 0]

\* cutoff = now - timedelta(seconds=self.window_seconds), for the now read
cutoff(t) == tnow[t] - window_seconds

\* the clock moves on (datetime.now() never goes back here)
Tick ==
    /\ threads # {}
    /\ ticks < MaxTicks
    /\ \E d \in {1, window_seconds} : now' = now + d
    /\ ticks' = ticks + 1
    /\ UNCHANGED <<threads, calls, timestamps, accepted, tpc, top, tnow, tret>>
    /\ UNCHANGED limiterRest

\* a thread enters check_and_record or get_remaining: now = datetime.now()
Enter(t) ==
    /\ tpc[t] \in {"idle", "accepted", "rejected", "remaining"}
    /\ calls < MaxCalls
    /\ calls' = calls + 1
    /\ \E method \in {"check_and_record", "get_remaining"} :
          top' = [top EXCEPT ![t] = method]
    /\ tnow' = [tnow EXCEPT ![t] = now]
    /\ tpc' = [tpc EXCEPT ![t] = "while"]
    /\ tret' = [tret EXCEPT ![t] = NoReturn]
    /\ UNCHANGED <<threads, now, ticks, timestamps, accepted>>
    /\ UNCHANGED limiterRest

\* while self.timestamps and self.timestamps[0] < cutoff:
WhileTest(t) ==
    /\ tpc[t] = "while"
    /\ tpc' = [tpc EXCEPT ![t] =
                 IF timestamps # <<>> /\ timestamps[1] < cutoff(t) THEN "popleft"
                 ELSE IF top[t] = "check_and_record" THEN "if" ELSE "return"]
    /\ UNCHANGED <<threads, now, ticks, calls, timestamps, accepted, top, tnow, tret>>
    /\ UNCHANGED limiterRest

\* self.timestamps.popleft(); IndexError when the deque has become empty
Popleft(t) ==
    /\ tpc[t] = "popleft"
    /\ IF timestamps # <<>>
       THEN /\ timestamps' = Tail(timestamps)
            /\ tpc' = [tpc EXCEPT ![t] = "while"]
            /\ UNCHANGED tret
       ELSE /\ tpc' = [tpc EXCEPT ![t] = "raised"]
            /\ tret' = [tret EXCEPT ![t] = Raised("IndexError")]
            /\ UNCHANGED timestamps
    /\ UNCHANGED <<threads, now, ticks, calls, accepted, top, tnow>>
    /\ UNCHANGED limiterRest

\* if len(self.timestamps) >= self.max_emails: raise RateLimitError
LimitTest_off(stamps) == Len(stamps) > max_emails

LimitTest(stamps) == Len(stamps) >= max_emails

IfLimit(t) ==
    /\ tpc[t] = "if"
    /\ IF LimitTest(timestamps)
       THEN /\ tpc' = [tpc EXCEPT ![t] = "rejected"]
            /\ tret' = [tret EXCEPT ![t] = Raised("RateLimitError")]
       ELSE /\ tpc' = [tpc EXCEPT ![t] = "append"]
            /\ UNCHANGED tret
    /\ UNCHANGED <<threads, now, ticks, calls, timestamps, accepted, top, tnow>>
    /\ UNCHANGED limiterRest

\* self.timestamps.append(now); return True
AppendNow(t) ==
    /\ tpc[t] = "append"
    /\ timestamps' = Append(timestamps, tnow[t])
    /\ accepted' = Append(accepted, tnow[t])
    /\ tpc' = [tpc EXCEPT ![t] = "accepted"]
    /\ tret' = [tret EXCEPT ![t] = Returned(1)]
    /\ UNCHANGED <<threads, now, ticks, calls, top, tnow>>
    /\ UNCHANGED limiterRest

\* return max(0, self.max_emails - len(self.timestamps))
ReturnRemaining(t) ==
    /\ tpc[t] = "return"
    /\ tret' = [tret EXCEPT ![t] = Returned(Max(0, max_emails - Len(timestamps)))]
    /\ tpc' = [tpc EXCEPT ![t] = "remaining"]
    /\ UNCHANGED <<threads, now, ticks, calls, timestamps, accepted, top, tnow>>
    /\ UNCHANGED limiterRest

NextLimiter ==
    \/ Tick
    \/ \E t \in threads : Enter(t)
    \/ \E t \in threads : WhileTest(t)
    \/ \E t \in threads : Popleft(t)
    \/ \E t \in threads : IfLimit(t)
    \/ \E t \in threads : AppendNow(t)
    \/ \E t \in threads : ReturnRemaining(t)

\* _rate_limiter = EmailRateLimiter(), used by the given threads
InitLimiterOf(ths) ==
    /\ threads = ths
    /\ now = 0 /\ ticks = 0 /\ calls = 0
    /\ timestamps = <<>> /\ accepted = <<>>
    /\ tpc = [t \in ths |-> "idle"]
    /\ top = [t \in ths |-> "none"]
    /\ tnow = [t \in ths |-> 0]
    /\ tret = [t \in ths |-> NoReturn]
    /\ WrapIdle /\ ListIdle /\ CardIdle /\ BuildIdle /\ PolaroidIdle /\ MergeIdle
    /\ SessionIdle /\ StrIdle

\* one thread: the calls follow one another
InitLimiter == InitLimiterOf({1})

SpecLimiter == InitLimiter /\ [][NextLimiter]_vars

\* two threads on the shared limiter
InitThreads == InitLimiterOf({1, 2})

SpecThreads == InitThreads /\ [][NextLimiter]_vars


(***************************************************************************)
(* Claims about the rate limiter, one thread (checked under SpecLimiter).  *)
(***************************************************************************)
\* the recorded times that lie in the window of thread t's call
C23_InWindow(t) == {i \in 1..Len(accepted) : accepted[i] >= cutoff(t)}

\* any max_emails + 1 accepted calls span more than the window
C23_Spread ==
    \A i \in 1..Len(accepted) :
        i + max_emails <= Len(accepted)
            => accepted[i + max_emails] - accepted[i] > window_seconds

\* a step that rejects a call, and one that records a time
C23_Rejects(t) == tpc[t] = "if" /\ tpc'[t] = "rejected"
C23_Records(t) == tpc[t] = "append" /\ tpc'[t] = "accepted"

C23_Step ==
    \A t \in threads :
        /\ C23_Rejects(t) =>
              /\ Cardinality(C23_InWindow(t)) >= max_emails
              /\ timestamps' = timestamps /\ accepted' = accepted
              /\ tret'[t] = Raised("RateLimitError")
        /\ C23_Records(t) => Cardinality(C23_InWindow(t)) < max_emails
        /\ (tpc[t] = "return" /\ tpc'[t] = "remaining") =>
              tret'[t] = Returned(max_emails - Cardinality(C23_InWindow(t)))

\* C23: with one caller and a clock that never goes back, any max_emails + 1
\* calls of check_and_record that returned True span strictly more than
\* window_seconds and the deque never holds more than max_emails times; a
\* call made while max_emails recorded times lie in the window raises
\* RateLimitError and records nothing; get_remaining returns max_emails
\* minus the number of recorded times still in the window.
C23_AtMostMaxPerWindow ==
    /\ [](C23_Spread /\ Len(timestamps) <= max_emails)
    /\ [][C23_Step]_vars

\* max_emails calls let through at once, a further one let through just
\* after the window of the first, and the quota read after it
C23_Witness ==
    /\ Len(accepted) = max_emails + 1
    /\ accepted[1] = 0 /\ accepted[max_emails] = 0
    /\ accepted[max_emails + 1] = window_seconds + 1
    /\ \E t \in threads : tpc[t] = "remaining" /\ tret[t] = Returned(max_emails - 1)


(***************************************************************************)
(* Claims about the rate limiter, two threads (checked under SpecThreads). *)
(***************************************************************************)
\* C28: with several threads in check_and_record on the shared limiter, in
\* any interleaving of their prune, check and record steps, the deque never
\* holds more than max_emails times, no call ends in an error other than
\* RateLimitError, and no more than max_emails calls are let through per
\* window.
C28_LimitHoldsUnderThreads ==
    /\ Len(timestamps) <= max_emails
    /\ \A t \in threads : tret[t].kind \in {"none", "return", "RateLimitError"}
    /\ \A i, j \in 1..Len(accepted) :
          (j - i >= max_emails) => accepted[j] - accepted[i] > window_seconds


(***************************************************************************)
(* Claims about the order of cap and filter (checked under SpecList).      *)
(***************************************************************************)
\* positions of the non-empty entries among the first k entries of the list
C24_Kept(k) == {i \in 1..Min(k, Len(litems.l)) : Truthy(litems.l[i])}

\* the n-th smallest member of a set of positions
C24_Nth(set, n) == CHOOSE i \in set : Cardinality({j \in set : j <= i}) = n

\* the result holds exactly the entries at the given positions, in order
C24_ResultIs(set) ==
    /\ Len(lout) = Cardinality(set)
    /\ \A n \in 1..Len(lout) : lout[n] = _safe_str(litems.l[C24_Nth(set, n)], MAX_TEXT_LENGTH)

C24_ListGiven == lpc = "done" /\ litems.t = "list"

\* C24 as stated: for a list, the result is the first max_items non-empty
\* entries of the source in source order, wherever the empty entries are.
C24_DropsBeforeCap ==
    C24_ListGiven =>
        LET all == C24_Kept(Len(litems.l))
        IN  C24_ResultIs({i \in all : Cardinality({j \in all : j <= i}) <= lmax})

\* C24 amended: for a list, the cap is applied before the empty entries are
\* dropped: the result is the non-empty entries among the first max_items
\* entries of the source, in source order, so it has fewer than max_items
\* entries whenever one of those first entries is empty.
C24_CapsBeforeDrop == C24_ListGiven => C24_ResultIs(C24_Kept(lmax))

C24_Witness ==
    /\ C24_ListGiven
    /\ Cardinality(C24_Kept(Len(litems.l))) >= lmax
    /\ Cardinality(C24_Kept(lmax)) = 1 /\ lmax = 2
    /\ Len(lout) = 1


(***************************************************************************)
(* Claims about the plans shown on both pages (checked under SpecBuild).   *)
(***************************************************************************)
C25_Has(id) == \E i \in 1..Len(drawLog) : drawLog[i].id = id
C25_HasCard(name_key) ==
    \E i \in 1..Len(drawLog) : drawLog[i].id = "card_title" /\ name_key \in drawLog[i].src

\* C25: once the Coverage page is drawn, a plan has a card on it exactly
\* when it is listed under Recommended Options and has a price row on the
\* Summary page, and every card belongs to a plan whose key is in
\* selected_plans, for every selected_plans list validation accepts.
C25_PagesShowSamePlans ==
    bpc \in {"about", "save", "returned"} =>
        /\ C25_HasCard("plan_1_name") <=> (C25_Has("option_1") /\ C25_Has("price_1"))
        /\ C25_HasCard("plan_2_name") <=> (C25_Has("option_2") /\ C25_Has("price_2"))
        /\ C25_HasCard("plan_1_name") => InList(PLAN_1_KEY, SelectedOf(quoteData))
        /\ C25_HasCard("plan_2_name") => InList(PLAN_2_KEY, SelectedOf(quoteData))


(***************************************************************************)
(* SpecSession: a session of app.py.  A step is one run of the script: a   *)
(* widget was edited, or a button that the last run rendered enabled was   *)
(* clicked.                                                                *)
(***************************************************************************)
MAX_EMAIL_LENGTH == 254
MaxGenerations == 2  \* most clicks of the generate button
MaxSends == 2        \* most clicks of the send button

AsciiLetters ==
    {"a", "b", "c", "d", "e", "f", "g", "h", "i", "j", "k", "l", "m", "n", "o", "p", "q", "r", "s", "t", "u", "v", "w", "x", "y", "z",
     "A", "B", "C", "D", "E", "F", "G", "H", "I", "J", "K", "L", "M", "N", "O", "P", "Q", "R", "S", "T", "U", "V", "W", "X", "Y", "Z"}
Alnum == AsciiLetters \cup {Digit(d) : d \in 0..9}

AllIn(s, set) == \A i \in 1..Len(s) : s[i] \in set
HasPair(s, ch) == \E i \in 1..(Len(s) - 1) : s[i] = ch /\ s[i + 1] = ch

\* re.match of ^[a-zA-Z0-9][a-zA-Z0-9._%+-]{0,63}@[a-zA-Z0-9][a-zA-Z0-9.-]{0,253}\.[a-zA-Z]{2,}$
EmailPattern(e) ==
    \E a \in 2..Len(e), k \in 3..Len(e) :
        /\ e[a] = "@" /\ e[1] \in Alnum /\ a - 2 <= 63
        /\ AllIn(SubSeq(e, 2, a - 1), Alnum \cup {".", "_", "%", "+", "-"})
        /\ k > a + 1 /\ e[k] = "." /\ e[a + 1] \in Alnum /\ k - a - 2 <= 253
        /\ AllIn(SubSeq(e, a + 2, k - 1), Alnum \cup {".", "-"})
        /\ Len(e) - k >= 2 /\ AllIn(SubSeq(e, k + 1, Len(e)), AsciiLetters)

validate_email(email) ==
    LET e == strip(email)
        at == CHOOSE a \in 1..Len(e) : e[a] = "@"
        local == SubSeq(e, 1, at - 1)
        domain == SubSeq(e, at + 1, Len(e))
    IN  /\ email # <<>>
        /\ Len(e) <= MAX_EMAIL_LENGTH
        /\ Cardinality({a \in 1..Len(e) : e[a] = "@"}) = 1
        /\ EmailPattern(e)
        /\ ~(Head(local) = "." \/ local[Len(local)] = "." \/ HasPair(local, "."))
        /\ ~(Head(domain) = "-" \/ domain[Len(domain)] = "-" \/ HasPair(domain, "."))

\* sanitize_header of petshealth_email_standalone.py
HeaderChar(ch) == ch \notin {"\r", "\n"} /\ (Ord(ch) >= 32 \/ ch = "\t")
sanitize_header(value) == strip(SelectSeq(value, HeaderChar))

\* sanitize_filename: the last path component, other characters replaced,
\* leading dots removed
FilenameChar(ch) == IF ch \in Alnum \cup Whitespace \cup {"_", "-", "."} THEN ch ELSE "_"
RECURSIVE LstripDots(_)
LstripDots(s) == IF s # <<>> /\ Head(s) = "." THEN LstripDots(Tail(s)) ELSE s
sanitize_filename(filename) ==
    LET slashes == {i \in 1..Len(filename) : filename[i] = "/"}
        name == IF slashes = {} THEN filename
                ELSE SubSeq(filename, (CHOOSE i \in slashes : \A j \in slashes : j <= i) + 1,
                            Len(filename))
        clean == LstripDots([i \in 1..Len(name) |-> FilenameChar(name[i])])
    IN  IF filename = <<>> \/ clean = <<>> THEN <<"u", "n", "t", "i", "t", "l", "e", "d">> ELSE clean

\* f"PETSHEALTH_Quote_{safe_client}_{safe_pet}_{quote_date.strftime('%Y%m%d')}.pdf"
Filename(form) ==
    LET client == IF form.client_name = <<>> THEN <<"C", "l", "i", "e", "n", "t">> ELSE form.client_name
        pet == IF form.pet_name # <<>> THEN form.pet_name
               ELSE IF IsBulk(form.quote_mode) THEN <<"B", "u", "l", "k">> ELSE <<"P", "e", "t">>
        d == form.quote_date
    IN  <<"P", "E", "T", "S", "H", "E", "A", "L", "T", "H", "_", "Q", "u", "o", "t", "e", "_">> \o sanitize_filename(client) \o <<"_">> \o sanitize_filename(pet) \o <<"_">>
        \o SubSeq(d, 7, 10) \o SubSeq(d, 4, 5) \o SubSeq(d, 1, 2) \o <<".", "p", "d", "f">>

\* the document build_quote_pdf and the merge return, by the total printed on
\* page 1 and whether the IPID pages were appended
PdfOf(form) ==
    [t |-> "bytes",
     total |-> Field(_validate_data_dict(sanitized_data(form)).data, "total_price", 20),
     ipids |-> form.include_ipid]

\* st.session_state as the first run of the script leaves it
NewSession == [pdf_generated |-> FALSE, final_pdf_bytes |-> PyNone, final_filename |-> PyNone]

\* a handler that marks the session before the document is built
generate_eager(session, form, outcome) ==
    IF outcome = "ok"
    THEN [pdf_generated |-> TRUE, final_pdf_bytes |-> PdfOf(form),
          final_filename |-> PyStr(Filename(form))]
    ELSE [session EXCEPT !.pdf_generated = TRUE]

\* the generate handler: the session is written after the build and the merge
\* returned, and an exception leaves it as it was
generate(session, form, outcome) ==
    IF outcome = "ok"
    THEN [pdf_generated |-> TRUE, final_pdf_bytes |-> PdfOf(form),
          final_filename |-> PyStr(Filename(form))]
    ELSE session

\* how a click of generate ends: a sanitizer raises ValidationError, the merge
\* raises PDFError, something else raises, or the document is stored
Outcomes(form) ==
    IF \E in \in SanitizedInputs(form) : TooLong(in[1], in[2]) THEN {"ValidationError"}
    ELSE {"ok", "Exception"} \cup (IF form.include_ipid THEN {"PDFError"} ELSE {})

\* a send button that is enabled whenever a document is stored
send_enabled_any(session, recipient) == session.pdf_generated

\* the send button is rendered when pdf_generated, and
\* disabled=(not email_valid or not st.session_state.pdf_generated)
send_enabled(session, recipient) ==
    /\ session.pdf_generated
    /\ ~(~(recipient # <<>> /\ validate_email(recipient)) \/ ~session.pdf_generated)

\* total_premium=f"EUR{total:.2f}" of the form as it is when send is clicked
total_premium(form) == <<"E">> \o Format2f(Total(form))

\* the message send_petshealth_quote hands to the server: its recipient, the
\* total in its body and its attachment
Email(session, form, recipient) ==
    [to |-> sanitize_header(recipient),
     total_premium |-> sanitize_header(total_premium(form)),
     pdf |-> session.final_pdf_bytes]

\* the forms of a session: the plans picked and the IPID toggle vary, one form
\* has other prices, one is in bulk mode and one has a hook that is too long
SessionForms ==
    { [include_ipid |-> inc] @@ [DefaultForm EXCEPT !.selected_plans = sel] :
        sel \in {PLAN_KEYS, <<PLAN_2_KEY>>, <<>>}, inc \in BOOLEAN }
    \cup { [include_ipid |-> TRUE] @@ f :
             f \in { [DefaultForm EXCEPT !.plan_1_price = 12345, !.plan_2_price = 5],
                     [DefaultForm EXCEPT !.quote_mode = BULK, !.pet_count = 2],
                     [DefaultForm EXCEPT !.marketing_hook = [i \in 1..151 |-> "a"]] } }

Recipients ==
    { <<>>, <<" ", "c", ".", "d", "@", "e", "-", "f", ".", "c", "o", "m", " ">>, <<"a", ".", ".", "b", "@", "c", ".", "g", "r">>, <<"a", "@", "b">> }

InitSession ==
    /\ uiForm = [include_ipid |-> TRUE] @@ DefaultForm
    /\ uiRecipient = strip(DefaultForm.client_email)
    /\ session_state = NewSession
    /\ lastEmail = PyNone
    /\ completed = PyNone
    /\ generations = 0
    /\ sends = 0
    /\ WrapIdle /\ ListIdle /\ CardIdle /\ BuildIdle /\ PolaroidIdle
    /\ MergeIdle /\ LimiterIdle /\ StrIdle

\* a widget of the form is edited; the script runs with no button clicked
EditForm ==
    /\ \E f \in SessionForms \ {uiForm} : uiForm' = f
    /\ UNCHANGED <<uiRecipient, session_state, lastEmail, completed, generations, sends>>
    /\ UNCHANGED sessionRest

\* the recipient input, rendered once a document is stored, is edited
EditRecipient ==
    /\ session_state.pdf_generated
    /\ \E r \in Recipients \ {uiRecipient} : uiRecipient' = r
    /\ UNCHANGED <<uiForm, session_state, lastEmail, completed, generations, sends>>
    /\ UNCHANGED sessionRest

\* the generate button, disabled while there are validation errors
ClickGenerate ==
    /\ generations < MaxGenerations
    /\ validation_errors(uiForm) = {}
    /\ generations' = generations + 1
    /\ \E outcome \in Outcomes(uiForm) :
          /\ session_state' = generate(session_state, uiForm, outcome)
          /\ completed' = IF outcome = "ok"
                          THEN [bytes |-> PdfOf(uiForm), filename |-> PyStr(Filename(uiForm)),
                                generation |-> generations + 1]
                          ELSE completed
    /\ UNCHANGED <<uiForm, uiRecipient, lastEmail, sends>>
    /\ UNCHANGED sessionRest

\* the send button: send_petshealth_quote sends the message or raises
ClickSend ==
    /\ sends < MaxSends
    /\ send_enabled(session_state, uiRecipient)
    /\ sends' = sends + 1
    /\ \E sent \in BOOLEAN :
          lastEmail' = IF sent THEN Email(session_state, uiForm, uiRecipient) ELSE lastEmail
    /\ UNCHANGED <<uiForm, uiRecipient, session_state, completed, generations>>
    /\ UNCHANGED sessionRest

NextSession == EditForm \/ EditRecipient \/ ClickGenerate \/ ClickSend

SpecSession == InitSession /\ [][NextSession]_vars


(***************************************************************************)
(* C26, C27: what a session can send.                                      *)
(***************************************************************************)
\* a click of generate that ended in an exception
C26_GenerateFailed == generations' = generations + 1 /\ completed' = completed

C26_SendClicked == sends' = sends + 1

\* the stored document and name are those of the last completed generation,
\* and nothing was sent before one completed
C26_Stored ==
    /\ session_state.pdf_generated =>
          /\ completed # PyNone
          /\ session_state.final_pdf_bytes = completed.bytes
          /\ session_state.final_filename = completed.filename
    /\ ~session_state.pdf_generated => (lastEmail = PyNone /\ sends = 0)

C26_Step ==
    /\ C26_GenerateFailed => session_state' = session_state
    /\ C26_SendClicked => (session_state.pdf_generated /\ validate_email(uiRecipient))

\* C26: in every state of a session, pdf_generated = True implies that
\* final_pdf_bytes and final_filename are the result of a completed generation;
\* a generation that fails leaves pdf_generated (and the rest of the session
\* state) as it was; and send is clicked, and an email sent, only while
\* pdf_generated is True and the recipient address is valid.
C26_SendOnlyAfterGeneration == [](C26_Stored) /\ [][C26_Step]_vars

\* an email was sent after a generation completed and a later one failed, and
\* an invalid address now sits in the recipient input
C26_Witness ==
    /\ lastEmail # PyNone /\ sends = 1
    /\ generations = 2 /\ completed # PyNone /\ completed.generation = 1
    /\ session_state.pdf_generated /\ ~validate_email(uiRecipient)

\* C27: whenever a quote email has been sent, the total premium stated in its
\* body equals the total printed in the attached document.
C27_EmailTotalIsPdfTotal ==
    lastEmail # PyNone =>
        Tail(lastEmail.total_premium) \o <<" ", "E">> = lastEmail.pdf.total


(***************************************************************************)
(* C29: a call that fails validation leaves the caller's record alone.     *)
(***************************************************************************)
\* the step on which _validate_data_dict raises
C29_Raises == bpc = "called" /\ bpc' = "raised" /\ result'.kind = "ValueError"

\* a field that the rewriting part of the validation would change
C29_WouldChange(data) == \E key \in DOMAIN data : ValidatedField(data, key) # data[key]

C29_RecordAsGiven ==
    (entry = "direct" /\ bpc = "raised" /\ result.kind = "ValueError") => quoteData = orig

\* C29: when _validate_data_dict raises ValueError (a required field is
\* missing, or selected_plans is not a list) the record is, field for field,
\* the record the caller gave: nothing was truncated, replaced or removed.
C29_FailedValidationLeavesRecord ==
    [](C29_RecordAsGiven) /\ [][C29_Raises => quoteData' = quoteData]_vars

\* the call raised on a record that holds an overlong text, a number for a
\* text and an oversized pool, none of which was touched
C29_Witness ==
    /\ entry = "direct" /\ bpc = "raised" /\ result.kind = "ValueError"
    /\ quoteData = orig
    /\ C29_WouldChange(quoteData)
    /\ Len(PyStrOf(quoteData["client_name"])) > MAX_TEXT_LENGTH


(***************************************************************************)
(* SpecStr: calls of _safe_str(text, max_length).                          *)
(***************************************************************************)
MaxLength == 6       \* largest max_length given to _safe_str

\* None, texts, and numbers in place of a text
StrInputs == WrapInputs \cup {PyInt(7), PyInt(12345)}

InitStr ==
    /\ stext \in StrInputs
    /\ smax \in 0..MaxLength
    /\ sout = <<>>
    /\ spc = "call"
    /\ WrapIdle /\ ListIdle /\ CardIdle /\ BuildIdle /\ PolaroidIdle
    /\ MergeIdle /\ LimiterIdle /\ SessionIdle

SafeStrCall ==
    /\ spc = "call"
    /\ sout' = _safe_str(stext, smax)
    /\ spc' = "done"
    /\ UNCHANGED <<stext, smax>>
    /\ UNCHANGED strRest

NextStr == SafeStrCall

SpecStr == InitStr /\ [][NextStr]_vars

\* C30: for every input, None and values that are not strings included, and
\* every max_length >= 0, the string _safe_str returns has at most max_length
\* characters and holds no control character other than newline and tab.
C30_ResultWithinMaxLength ==
    spc = "done" =>
        /\ Len(sout) <= smax
        /\ \A i \in 1..Len(sout) : Ord(sout[i]) >= 32 \/ sout[i] \in {"\n", "\t"}

=============================================================================
